---- MODULE Spec2Model ----
(***************************************************************************)
(* Intent resolution and tool-dispatch pipeline of the taxi chat backend   *)
(* (chat-backend/app): text analysis, option matching, the message         *)
(* handlers, the tool registry and the side-effect processor.              *)
(*                                                                         *)
(* Text is modelled as a sequence of one-character strings so that the     *)
(* regular expressions and the substring tests of the source are computed  *)
(* rather than assumed.                                                    *)
(***************************************************************************)
EXTENDS Integers, Sequences, FiniteSets, TLC

(***************************************************************************)
(* Character-level helpers (Python str / re semantics)                     *)
(***************************************************************************)
Letters ==
  {"a","b","c","d","e","f","g","h","i","j","k","l","m","n","o","p","q","r",
   "s","t","u","v","w","x","y","z","à","è","é","ì","ò","ù"}

Digits == {"0","1","2","3","4","5","6","7","8","9"}

UpperToLower ==
  ("A" :> "a") @@ ("B" :> "b") @@ ("C" :> "c") @@ ("D" :> "d") @@ ("E" :> "e") @@
  ("F" :> "f") @@ ("G" :> "g") @@ ("H" :> "h") @@ ("I" :> "i") @@ ("J" :> "j") @@
  ("K" :> "k") @@ ("L" :> "l") @@ ("M" :> "m") @@ ("N" :> "n") @@ ("O" :> "o") @@
  ("P" :> "p") @@ ("Q" :> "q") @@ ("R" :> "r") @@ ("S" :> "s") @@ ("T" :> "t") @@
  ("U" :> "u") @@ ("V" :> "v") @@ ("W" :> "w") @@ ("X" :> "x") @@ ("Y" :> "y") @@
  ("Z" :> "z")

\* regex \w : letters (either case), digits and underscore
WordChars == Letters \cup Digits \cup (DOMAIN UpperToLower) \cup {"_"}

\* regex \s
IsSpace(c) == c \in {" ", "\t", "\n"}

\* str.lower()
Lower(s) ==
  [i \in 1..Len(s) |-> IF s[i] \in DOMAIN UpperToLower THEN UpperToLower[s[i]] ELSE s[i]]

\* str.strip()
Strip(s) ==
  LET keep == {i \in 1..Len(s) : ~IsSpace(s[i])}
  IN  IF keep = {} THEN <<>>
      ELSE LET lo == CHOOSE i \in keep : \A j \in keep : i <= j
               hi == CHOOSE i \in keep : \A j \in keep : i >= j
           IN  SubSeq(s, lo, hi)

\* len(text.split())
WordCount(s) ==
  Cardinality({i \in 1..Len(s) : ~IsSpace(s[i]) /\ (i = 1 \/ IsSpace(s[i-1]))})

\* regex \b at the gap just before position i (i in 1..Len(s)+1)
Boundary(s, i) ==
  LET before == i > 1 /\ i - 1 <= Len(s) /\ s[i-1] \in WordChars
      after  == i >= 1 /\ i <= Len(s) /\ s[i] \in WordChars
  IN  before # after

\* the literal w occurs in s starting at position i
MatchAt(s, w, i) ==
  /\ i >= 1
  /\ i + Len(w) - 1 <= Len(s)
  /\ \A k \in 1..Len(w) : s[i + k - 1] = w[k]

\* Python "w in s"
Contains(s, w) == \E i \in 1..(Len(s) - Len(w) + 1) : MatchAt(s, w, i)

\* re.search(r"\bw\b", s) for a literal w
SearchWord(s, w) ==
  \E i \in 1..(Len(s) - Len(w) + 1) :
     MatchAt(s, w, i) /\ Boundary(s, i) /\ Boundary(s, i + Len(w))

\* re.search(r"\bw\s+", s) for a literal w
SearchWordThenSpace(s, w) ==
  \E i \in 1..(Len(s) - Len(w)) :
     MatchAt(s, w, i) /\ Boundary(s, i) /\ IsSpace(s[i + Len(w)])

\* at position j the text continues with \s+ followed by the literal w
SpacesThen(s, j, w) ==
  \E k \in (j + 1)..Len(s) :
     (\A t \in j..(k - 1) : IsSpace(s[t])) /\ MatchAt(s, w, k)

\* any(p in s for p in patterns)
ContainsAny(s, patterns) == \E n \in 1..Len(patterns) : Contains(s, patterns[n])

\* any(re.search(r"\bp\b", s) for p in patterns)
SearchAnyWord(s, patterns) == \E n \in 1..Len(patterns) : SearchWord(s, patterns[n])

DigitValue ==
  ("0" :> 0) @@ ("1" :> 1) @@ ("2" :> 2) @@ ("3" :> 3) @@ ("4" :> 4) @@
  ("5" :> 5) @@ ("6" :> 6) @@ ("7" :> 7) @@ ("8" :> 8) @@ ("9" :> 9)

\* int(d) for a digit string d
RECURSIVE ParseInt(_)
ParseInt(d) ==
  IF d = <<>> THEN 0
  ELSE 10 * ParseInt(SubSeq(d, 1, Len(d) - 1)) + DigitValue[d[Len(d)]]

\* end of the maximal digit run that starts at i (i - 1 when s[i] is no digit)
DigitRunEnd(s, i) ==
  LET stops == {j \in i..(Len(s) + 1) : j > Len(s) \/ s[j] \notin Digits}
  IN  (CHOOSE j \in stops : \A k \in stops : j <= k) - 1

\* least element of a non-empty set of integers
Least(S) == CHOOSE x \in S : \A y \in S : x <= y

NoValue == "None"

\* absent integer (Python None where an int is expected)
NoIndex == -1

SIMPLE_CONFIRMATIONS ==
  << <<"o","k">>,
     <<"o","k","a","y">>,
     <<"s","ì">>,
     <<"s","i">>,
     <<"v","a"," ","b","e","n","e">>,
     <<"p","e","r","f","e","t","t","o">>,
     <<"g","r","a","z","i","e">>,
     <<"d","'","a","c","c","o","r","d","o">>,
     <<"c","a","p","i","t","o">>,
     <<"c","e","r","t","o">>,
     <<"e","s","a","t","t","o">>,
     <<"g","i","u","s","t","o">>,
     <<"b","e","n","i","s","s","i","m","o">>,
     <<"o","t","t","i","m","o">>,
     <<"f","a","n","t","a","s","t","i","c","o">>,
     <<"e","c","c","e","l","l","e","n","t","e">> >>

SIMPLE_REJECTIONS ==
  << <<"n","o">>,
     <<"n","o"," ","g","r","a","z","i","e">>,
     <<"n","i","e","n","t","e">>,
     <<"l","a","s","c","i","a"," ","s","t","a","r","e">>,
     <<"a","n","n","u","l","l","a">>,
     <<"n","o","n"," ","i","m","p","o","r","t","a">>,
     <<"n","o","n"," ","s","e","r","v","e">>,
     <<"l","a","s","c","i","a"," ","p","e","r","d","e","r","e">>,
     <<"b","a","s","t","a"," ","c","o","s","ì">> >>

action_indicators ==
  << <<"m","e","t","t","i">>,
     <<"f","e","r","m","a">>,
     <<"c","a","m","b","i","a">>,
     <<"v","a","i">>,
     <<"p","o","r","t","a","m","i">>,
     <<"v","o","g","l","i","o">>,
     <<"c","e","r","c","o">>,
     <<"t","r","o","v","a">> >>

greetings ==
  << <<"c","i","a","o">>,
     <<"s","a","l","v","e">>,
     <<"b","u","o","n","g","i","o","r","n","o">>,
     <<"b","u","o","n","a","s","e","r","a">>,
     <<"b","u","o","n","a","n","o","t","t","e">>,
     <<"h","e","y">>,
     <<"e","h","i">>,
     <<"h","e","l","l","o">>,
     <<"h","i">> >>

help_patterns ==
  << <<"a","i","u","t","o">>,
     <<"h","e","l","p">>,
     <<"c","o","s","a"," ","p","u","o","i"," ","f","a","r","e">>,
     <<"c","o","s","a"," ","s","a","i"," ","f","a","r","e">>,
     <<"c","o","m","e"," ","f","u","n","z","i","o","n","a">>,
     <<"c","h","e"," ","p","u","o","i"," ","f","a","r","e">>,
     <<"c","o","s","a"," ","f","a","i">>,
     <<"q","u","a","l","i"," ","s","o","n","o"," ","l","e"," ","o","p","z","i","o","n","i">>,
     <<"m","e","n","u">>,
     <<"c","o","m","a","n","d","i">> >>

POLICY_KEYWORDS ==
  << [policy |-> "Sport", keywords |->
       << <<"f","r","e","t","t","a">>,
          <<"u","r","g","e","n","t","e">>,
          <<"u","r","g","e","n","z","a">>,
          <<"v","e","l","o","c","e">>,
          <<"s","b","r","i","g","a","t","i">>,
          <<"c","o","r","r","i">>,
          <<"r","a","p","i","d","o">>,
          <<"d","i"," ","f","r","e","t","t","a">>,
          <<"h","o"," ","f","r","e","t","t","a">>,
          <<"è"," ","u","r","g","e","n","t","e">>,
          <<"s","b","r","i","g","a","r","m","i">>,
          <<"p","r","e","s","t","o">>,
          <<"v","e","l","o","c","e","m","e","n","t","e">>,
          <<"s","p","o","r","t">>,
          <<"s","p","o","r","t","i","v","a">>,
          <<"m","o","d","a","l","i","t","à"," ","s","p","o","r","t">> >>],
     [policy |-> "Comfort", keywords |->
       << <<"r","e","l","a","x">>,
          <<"t","r","a","n","q","u","i","l","l","o">>,
          <<"c","a","l","m","a">>,
          <<"c","o","m","o","d","o">>,
          <<"c","o","m","f","o","r","t">>,
          <<"c","o","n","f","o","r","t","e","v","o","l","e">>,
          <<"s","e","n","z","a"," ","f","r","e","t","t","a">>,
          <<"c","o","n"," ","c","a","l","m","a">>,
          <<"p","i","a","n","o">>,
          <<"l","e","n","t","a","m","e","n","t","e">>,
          <<"r","i","l","a","s","s","a","t","o">>,
          <<"m","o","d","a","l","i","t","à"," ","c","o","m","f","o","r","t">>,
          <<"c","o","m","f","o","r","t","e","v","o","l","e">> >>],
     [policy |-> "Eco", keywords |->
       << <<"e","c","o","l","o","g","i","c","o">>,
          <<"e","c","o">>,
          <<"r","i","s","p","a","r","m","i","o">>,
          <<"e","c","o","s","o","s","t","e","n","i","b","i","l","e">>,
          <<"v","e","r","d","e">>,
          <<"a","m","b","i","e","n","t","e">>,
          <<"r","i","s","p","a","r","m","i","a","r","e">>,
          <<"e","c","o","n","o","m","i","c","o">>,
          <<"m","o","d","a","l","i","t","à"," ","e","c","o">>,
          <<"g","r","e","e","n">> >>] >>

(***************************************************************************)
(* utils/text.py                                                           *)
(***************************************************************************)
S_non    == <<"n","o","n">>
S_niente == <<"n","i","e","n","t","e">>
S_no     == <<"n","o">>
S_mai    == <<"m","a","i">>
S_senza  == <<"s","e","n","z","a">>
S_grazie == <<"g","r","a","z","i","e">>

\* r"\bno\b(?!\s+grazie)"
SearchNoNotGrazie(s) ==
  \E i \in 1..(Len(s) - 1) :
     /\ MatchAt(s, S_no, i)
     /\ Boundary(s, i)
     /\ Boundary(s, i + 2)
     /\ ~SpacesThen(s, i + 2, S_grazie)

\* NEGATION_PATTERNS, tried in order by _detect_negation (any match suffices)
_detect_negation(text) ==
  \/ SearchWordThenSpace(text, S_non)
  \/ SearchWordThenSpace(text, S_niente)
  \/ SearchNoNotGrazie(text)
  \/ SearchWord(text, S_mai)
  \/ SearchWordThenSpace(text, S_senza)
  \/ SearchWord(text, S_non)

analyze_text(text) ==
  LET text_lower == Strip(Lower(text))
      words == WordCount(text_lower)
      has_negation == _detect_negation(text_lower)
      conf_hit == words <= 3 /\ ~has_negation /\ SearchAnyWord(text_lower, SIMPLE_CONFIRMATIONS)
      is_simple_confirmation == conf_hit /\ ~ContainsAny(text_lower, action_indicators)
      is_simple_rejection == words <= 5 /\ SearchAnyWord(text_lower, SIMPLE_REJECTIONS)
  IN  [has_negation |-> has_negation,
       is_simple_confirmation |-> is_simple_confirmation,
       is_simple_rejection |-> is_simple_rejection]

is_greeting(text) ==
  LET text_lower == Strip(Lower(text))
  IN  WordCount(text_lower) <= 3 /\ ContainsAny(text_lower, greetings)

is_help_request(text) == ContainsAny(Lower(text), help_patterns)

(***************************************************************************)
(* tools/taxi_tools.py : detect_policy_from_text                           *)
(***************************************************************************)
detect_policy_from_text(text) ==
  LET text_lower == Lower(text)
      hits == {n \in 1..Len(POLICY_KEYWORDS) : ContainsAny(text_lower, POLICY_KEYWORDS[n].keywords)}
  IN  IF hits = {} THEN NoValue ELSE POLICY_KEYWORDS[Least(hits)].policy

(***************************************************************************)
(* llm/intent_classifier.py : deterministic part of match_option           *)
(***************************************************************************)
ordinal_map ==
  << [word |-> <<"p","r","i","m","o">>, idx |-> 1],
     [word |-> <<"p","r","i","m","a">>, idx |-> 1],
     [word |-> <<"s","e","c","o","n","d","o">>, idx |-> 2],
     [word |-> <<"s","e","c","o","n","d","a">>, idx |-> 2],
     [word |-> <<"t","e","r","z","o">>, idx |-> 3],
     [word |-> <<"t","e","r","z","a">>, idx |-> 3],
     [word |-> <<"q","u","a","r","t","o">>, idx |-> 4],
     [word |-> <<"q","u","a","r","t","a">>, idx |-> 4],
     [word |-> <<"q","u","i","n","t","o">>, idx |-> 5],
     [word |-> <<"q","u","i","n","t","a">>, idx |-> 5],
     [word |-> <<"s","e","s","t","o">>, idx |-> 6],
     [word |-> <<"s","e","s","t","a">>, idx |-> 6],
     [word |-> <<"s","e","t","t","i","m","o">>, idx |-> 7],
     [word |-> <<"s","e","t","t","i","m","a">>, idx |-> 7],
     [word |-> <<"o","t","t","a","v","o">>, idx |-> 8],
     [word |-> <<"o","t","t","a","v","a">>, idx |-> 8],
     [word |-> <<"n","o","n","o">>, idx |-> 9],
     [word |-> <<"n","o","n","a">>, idx |-> 9],
     [word |-> <<"d","e","c","i","m","o">>, idx |-> 10],
     [word |-> <<"d","e","c","i","m","a">>, idx |-> 10] >>

\* the prefixes of r"\b(?:numero|n\.?|n°|nº)\s*(\d+)\b", in alternation order
numero_prefixes ==
  << <<"n","u","m","e","r","o">>, <<"n",".">>, <<"n">>, <<"n","°">>, <<"n","º">> >>

\* value captured by the numero pattern when it matches at position i, else NoIndex
NumeroAt(s, i) ==
  LET ok(p) ==
        /\ MatchAt(s, p, i)
        /\ \E d \in (i + Len(p))..Len(s) :
              /\ \A t \in (i + Len(p))..(d - 1) : IsSpace(s[t])
              /\ s[d] \in Digits
              /\ Boundary(s, DigitRunEnd(s, d) + 1)
      hits == {n \in 1..Len(numero_prefixes) : ok(numero_prefixes[n])}
  IN  IF ~Boundary(s, i) \/ hits = {} THEN NoIndex
      ELSE LET p == numero_prefixes[Least(hits)]
               d == Least({d \in (i + Len(p))..Len(s) : s[d] \in Digits})
           IN  ParseInt(SubSeq(s, d, DigitRunEnd(s, d)))

\* value captured by r"\b(\d+)\b" when it matches at position i, else NoIndex
BareNumberAt(s, i) ==
  IF Boundary(s, i) /\ s[i] \in Digits /\ Boundary(s, DigitRunEnd(s, i) + 1)
  THEN ParseInt(SubSeq(s, i, DigitRunEnd(s, i)))
  ELSE NoIndex

\* re.search: the capture of the leftmost match, else NoIndex
FirstCapture(s, At(_, _)) ==
  LET hits == {i \in 1..Len(s) : At(s, i) # NoIndex}
  IN  IF hits = {} THEN NoIndex ELSE At(s, Least(hits))

_extract_option_index(text, options_count) ==
  IF options_count <= 0 THEN NoIndex
  ELSE
    LET ord_hits == {n \in 1..Len(ordinal_map) :
                       /\ SearchWord(text, ordinal_map[n].word)
                       /\ 1 <= ordinal_map[n].idx
                       /\ ordinal_map[n].idx <= options_count}
        numero == FirstCapture(text, NumeroAt)
        bare   == FirstCapture(text, BareNumberAt)
        InRange(v) == v # NoIndex /\ 1 <= v /\ v <= options_count
    IN  IF ord_hits # {} THEN ordinal_map[Least(ord_hits)].idx
        ELSE IF InRange(numero) THEN numero
        ELSE IF InRange(bare) THEN bare
        ELSE NoIndex

cancel_phrases ==
  << <<"n","o">>, <<"n","i","e","n","t","e">>, <<"a","n","n","u","l","l","a">>,
     <<"n","o","n"," ","v","o","g","l","i","o">>,
     <<"l","a","s","c","i","a"," ","s","t","a","r","e">> >>

\* re.search(r"\b(no|niente|annulla|non voglio|lascia stare)\b", text_lower)
HasCancelPhrase(text_lower) == SearchAnyWord(text_lower, cancel_phrases)


(***************************************************************************)
(* Identifiers.  A UI option / action id "<prefix>:<value>" is the record  *)
(* [k |-> prefix, v |-> value]; an id without prefix has k = "plain".      *)
(***************************************************************************)
NumPois == 2

\* rows of the PuntoInteresse table: id and simulator-space id
PoiTable ==
  << [id |-> "POI_1", id_unity |-> "U_1"], [id |-> "POI_2", id_unity |-> "U_2"],
     [id |-> "POI_3", id_unity |-> "U_3"], [id |-> "POI_4", id_unity |-> "U_4"] >>

\* the POIs stored in the graph database
POIs == {PoiTable[i].id : i \in 1..NumPois}

UnityIdOf(p) == PoiTable[CHOOSE i \in 1..NumPois : PoiTable[i].id = p].id_unity

\* a well-formed POI id that is not in the database
ForeignPoi == "POI_9"

NoId == [k |-> "none", v |-> ""]

PoiOpt(p)    == [k |-> "poi", v |-> p]
GenreOpt(g)  == [k |-> "genre", v |-> g]
PolicyOpt(p) == [k |-> "policy", v |-> p]
NeedOpt(n)   == [k |-> "poi_need", v |-> n]
QuickOpt(n)  == [k |-> "quick", v |-> n]
Plain(x)     == [k |-> "plain", v |-> x]

CancelOpt == Plain("cancel")


(***************************************************************************)
(* main.py : parameter extraction for _execute_tool                        *)
(***************************************************************************)
genre_map ==
  << [pattern |-> << "j","a","z","z" >>, genre |-> "Jazz"],
     [pattern |-> << "r","o","c","k" >>, genre |-> "Rock"],
     [pattern |-> << "p","o","p" >>, genre |-> "Pop"],
     [pattern |-> << "c","l","a","s","s","i","c","a" >>, genre |-> "Classica"],
     [pattern |-> << "h","i","p"," ","h","o","p" >>, genre |-> "HipHop"],
     [pattern |-> << "h","i","p","h","o","p" >>, genre |-> "HipHop"],
     [pattern |-> << "h","i","p","-","h","o","p" >>, genre |-> "HipHop"],
     [pattern |-> << "e","l","e","t","t","r","o","n","i","c","a" >>, genre |-> "Elettronica"],
     [pattern |-> << "e","l","e","c","t","r","o","n","i","c" >>, genre |-> "Elettronica"] >>

_extract_genre_from_message(message) ==
  LET text == Lower(message)
      hits == {n \in 1..Len(genre_map) : Contains(text, genre_map[n].pattern)}
  IN  IF hits = {} THEN NoValue ELSE genre_map[Least(hits)].genre

\* max(1, min(10, v))
Clamp(v) == IF v < 1 THEN 1 ELSE IF v > 10 THEN 10 ELSE v

\* round(v / 10): Python rounds a half to the even neighbour
RoundTenth(v) ==
  LET q == v \div 10
      r == v % 10
  IN  IF r < 5 THEN q ELSE IF r > 5 THEN q + 1 ELSE IF q % 2 = 0 THEN q ELSE q + 1

\* first position at or after j that holds no white space
SkipSpaces(s, j) == Least({k \in j..(Len(s) + 1) : k > Len(s) \/ ~IsSpace(s[k])})

\* capture of r"volume\s*(?:a|al)?\s*(\d+)" matching at i, else NoIndex
VolumeWordAt(s, i) ==
  LET w == <<"v","o","l","u","m","e">>
      j == SkipSpaces(s, i + Len(w))
      starts == {SkipSpaces(s, j + n) : n \in {n \in {0, 1, 2} :
                   \/ n = 0
                   \/ n = 1 /\ MatchAt(s, <<"a">>, j)
                   \/ n = 2 /\ MatchAt(s, <<"a","l">>, j)}}
      digits == {d \in starts : d <= Len(s) /\ s[d] \in Digits}
  IN  IF MatchAt(s, w, i) /\ digits # {}
      THEN LET d == Least(digits) IN ParseInt(SubSeq(s, d, DigitRunEnd(s, d)))
      ELSE NoIndex

\* capture of r"\b(?:a|al)\s*(\d+)\b" matching at i, else NoIndex
PrepositionNumberAt(s, i) ==
  LET digits == {SkipSpaces(s, i + n) : n \in {n \in {1, 2} :
                   \/ n = 1 /\ MatchAt(s, <<"a">>, i)
                   \/ n = 2 /\ MatchAt(s, <<"a","l">>, i)}}
      ok == {d \in digits : d <= Len(s) /\ s[d] \in Digits /\ Boundary(s, DigitRunEnd(s, d) + 1)}
  IN  IF Boundary(s, i) /\ ok # {}
      THEN LET d == Least(ok) IN ParseInt(SubSeq(s, d, DigitRunEnd(s, d)))
      ELSE NoIndex

_extract_volume_from_message(message) ==
  LET text == Lower(message)
      Percent(v) == Clamp(IF v > 10 THEN Clamp(RoundTenth(v)) ELSE v)
      v1 == FirstCapture(text, VolumeWordAt)
      v2 == FirstCapture(text, PrepositionNumberAt)
      v3 == FirstCapture(text, BareNumberAt)
  IN  IF v1 # NoIndex THEN Percent(v1)
      ELSE IF v2 # NoIndex THEN Percent(v2)
      ELSE IF v3 # NoIndex /\ v3 >= 1 THEN (IF v3 <= 10 THEN v3 ELSE Clamp(RoundTenth(v3)))
      ELSE NoIndex

(***************************************************************************)
(* User messages explored by the model.  A message is named by its text;   *)
(* Chars gives the characters the string functions work on.                *)
(***************************************************************************)
Chars ==
  ("no grazie" :> <<"n","o"," ","g","r","a","z","i","e">>)
  @@ ("no" :> <<"n","o">>)
  @@ ("ok" :> <<"o","k">>)
  @@ ("aiuto" :> <<"a","i","u","t","o">>)
  @@ ("ciao" :> <<"c","i","a","o">>)
  @@ ("non voglio musica" :> <<"n","o","n"," ","v","o","g","l","i","o"," ","m","u","s","i","c","a">>)
  @@ ("il secondo" :> <<"i","l"," ","s","e","c","o","n","d","o">>)
  @@ ("il terzo" :> <<"i","l"," ","t","e","r","z","o">>)
  @@ ("7 o 2" :> <<"7"," ","o"," ","2">>)
  @@ ("Numero 2" :> <<"N","u","m","e","r","o"," ","2">>)
  @@ ("vai veloce" :> <<"v","a","i"," ","v","e","l","o","c","e">>)
  @@ ("ho fame" :> <<"h","o"," ","f","a","m","e">>)
  @@ ("metti del jazz" :> <<"m","e","t","t","i"," ","d","e","l"," ","j","a","z","z">>)
  @@ ("che ore sono" :> <<"c","h","e"," ","o","r","e"," ","s","o","n","o">>)
  @@ ("vai piano" :> <<"v","a","i"," ","p","i","a","n","o">>)
  @@ ("annulla il primo" :> <<"a","n","n","u","l","l","a"," ","i","l"," ","p","r","i","m","o">>)

Messages == DOMAIN Chars

\* the longest option list a handler can have on offer
MaxOptions == 7

(***************************************************************************)
(* Text features of the explored messages.  The handlers evaluate these    *)
(* functions on msg.text.strip(); the table holds their values.            *)
(***************************************************************************)
TextFacts ==
  LET f == [m \in Messages |->
              [analysis |-> analyze_text(Strip(Chars[m])),
               help     |-> is_help_request(Strip(Chars[m])),
               greeting |-> is_greeting(Strip(Chars[m])),
               policy   |-> detect_policy_from_text(Strip(Chars[m])),
               genre    |-> _extract_genre_from_message(Strip(Chars[m])),
               volume   |-> _extract_volume_from_message(Strip(Chars[m])),
               cancel   |-> HasCancelPhrase(Lower(Strip(Chars[m]))),
               index    |-> LET g == [n \in 1..MaxOptions |->
                                        _extract_option_index(Lower(Strip(Chars[m])), n)]
                            IN  g @@ g]]
  IN  f @@ f

\* the table as the handlers read it: the text functions are pure, their
\* values on the explored messages are computed once and never change
VARIABLE text_facts
(***************************************************************************)
(* llm/intent_classifier.py : match_option                                 *)
(*                                                                         *)
(* The LLM is an oracle.  Its answer to the option-matching prompt is      *)
(*   [kind |-> "error"]   transport failure, timeout, rate limit exhausted *)
(*   [kind |-> "nojson"]  text from which no JSON object can be parsed     *)
(*   [kind |-> "json", sel |-> s, action |-> a]  a parsed object, where    *)
(* s.form says what the "selected_id" text looks like:                     *)
(*   "null"     null, "null" or ""                                         *)
(*   "cancel"   the literal cancel                                         *)
(*   "exact"    exactly the id s.id                                        *)
(*   "wrapped"  prose around the id s.id                                   *)
(*   "bare"     the POI id s.id.v without its poi: prefix                  *)
(*   "label"    the label of the option with id s.id                       *)
(*   "junk"     text that names no option                                  *)
(* and a is "select", "cancel", "unclear", or "other" for anything else.   *)
(***************************************************************************)
SelForm(f, id) == [form |-> f, id |-> id]

LLMActions == {"select", "cancel", "unclear", "other"}

OptionSet(options) == {options[i] : i \in 1..Len(options)}

\* the explored LLM answers name one of the first MaxPick options
MaxPick == 2

Pickable(options) == {options[i] : i \in {i \in 1..Len(options) : i <= MaxPick}}

MatchAnswers(options) ==
  {[kind |-> "error", sel |-> SelForm("null", NoId), action |-> "unclear"],
   [kind |-> "nojson", sel |-> SelForm("null", NoId), action |-> "unclear"]}
  \cup
  {[kind |-> "json", sel |-> s, action |-> a] :
     s \in {SelForm("null", NoId), SelForm("cancel", NoId), SelForm("junk", NoId),
            SelForm("exact", PoiOpt(ForeignPoi)), SelForm("bare", PoiOpt(ForeignPoi))}
           \cup {SelForm(f, id) : f \in {"exact", "label"}, id \in Pickable(options)}
           \cup {SelForm(f, id) : f \in {"wrapped", "bare"},
                                  id \in {o \in OptionSet(options) : o.k = "poi"}},
     a \in LLMActions}

\* _fuzzy_match_option on the text of an id: the label of a genre button is
\* the genre name, which the id text contains, except for "Hip Hop"
IdTextContainsLabel(id) == id.k = "genre" /\ id.v # "HipHop"

\* the value match_option returns for the key selected_id
NormalizeSelected(sel, action, options) ==
  IF sel.form \in {"null", "cancel"} THEN NoId
  ELSE IF action # "select" THEN
       \* returned as the LLM wrote it
       (IF sel.form = "junk" THEN Plain("junk") ELSE sel.id)
  ELSE CASE sel.form \in {"wrapped", "bare"} -> PoiOpt(sel.id.v)
         [] sel.form = "exact" /\ sel.id.k = "poi" -> sel.id
         [] sel.form = "exact" /\ sel.id.k # "poi" ->
              IF IdTextContainsLabel(sel.id) /\ sel.id \in OptionSet(options)
              THEN sel.id ELSE NoId
         [] sel.form = "label" -> sel.id
         [] OTHER -> NoId

NormalizeAction(sel, action) == IF sel.form = "cancel" THEN "cancel" ELSE action

MatchResult(selected_id, action, calls) ==
  [selected_id |-> selected_id, action |-> action, llm_calls |-> calls]

\* line 398: the "import re" further down in match_option makes re a local name
\* of the whole function, so re.search at line 359 finds it unbound
re_unbound == TRUE

\* lines 356-368: the deterministic pre-check.  Its first statement after
\* lower() is re.search, which raises UnboundLocalError while re is unbound;
\* line 367 catches the exception and the function goes on to ask the LLM.
match_option(message, options, answer) ==
  IF options = <<>> THEN MatchResult(NoId, "unclear", 0)
  ELSE
    LET pre == text_facts[message]
        index == pre.index[Len(options)]
    IN  IF ~re_unbound /\ pre.cancel THEN MatchResult(NoId, "cancel", 0)
        ELSE IF ~re_unbound /\ index # NoIndex THEN MatchResult(options[index], "select", 0)
        ELSE IF answer.kind # "json" THEN MatchResult(NoId, "unclear", 1)
        ELSE MatchResult(NormalizeSelected(answer.sel, NormalizeAction(answer.sel, answer.action), options),
                         NormalizeAction(answer.sel, answer.action), 1)

(***************************************************************************)
(* schemas.py : SessionState, responses and commands                       *)
(***************************************************************************)
\* SessionState() as the store creates it for a new session id
SessionState ==
  [mode |-> "normal", is_ride_active |-> FALSE,
   last_ui_options |-> <<>>, last_poi_suggestions |-> <<>>,
   pending_question |-> NoValue,
   music_playing |-> FALSE, music_genre |-> NoValue, music_paused |-> FALSE,
   music_volume |-> 5, driving_policy |-> "Sport"]

\* f"/music/{genre}"
music_url(genre) == "/music/" \o genre

\* Command(type, payload).model_dump(); p gives the payload keys that are set
Command(type, p) ==
  [type |-> type] @@ p @@
  [poi_id |-> NoValue, id_unity |-> NoValue, genre |-> NoValue, url |-> NoValue,
   volume |-> NoIndex]

NoPayload == [genre |-> NoValue]

\* a message written to the simulator socket
UnityMsg(type, p) ==
  [type |-> type] @@ p @@
  [poi_id |-> NoValue, poi_id_unity |-> NoValue, nuova_policy |-> NoValue]

\* the dict a handler returns
Response(message, ui_options, commands) ==
  [type |-> "assistant_response", message |-> message,
   ui_options |-> ui_options, commands |-> commands]

\* a handler that fell off its last branch returns None
NoResponse == [type |-> "None", message |-> "", ui_options |-> <<>>, commands |-> <<>>]

genre_options ==
  << GenreOpt("Pop"), GenreOpt("Rock"), GenreOpt("Jazz"), GenreOpt("Classica"),
     GenreOpt("HipHop"), GenreOpt("Elettronica") >>

need_buttons ==
  << NeedOpt("Fame"), NeedOpt("Sete"), NeedOpt("Malessere"), NeedOpt("Divertimento"),
     NeedOpt("Shopping"), CancelOpt >>

quick_buttons == << QuickOpt("fame"), QuickOpt("sete"), Plain("ask_music") >>

(***************************************************************************)
(* neo4j/repo.py : the graph database is an oracle.  Every call may fail   *)
(* (the repository catches the error and answers None), and a stored POI   *)
(* may lack the simulator id.                                              *)
(***************************************************************************)
NoPoi == [id |-> NoValue, id_unity |-> NoValue]

get_poi_by_id(poi_id) ==
  {NoPoi} \cup
  (IF poi_id \in POIs
   THEN {[id |-> poi_id, id_unity |-> u] : u \in {UnityIdOf(poi_id), NoValue}}
   ELSE {})

\* the elements of s at the positions K, in order
SubSeqOn(s, K) ==
  LET Nth(j) == CHOOSE k \in K : Cardinality({x \in K : x <= k}) = j
  IN  [j \in 1..Cardinality(K) |-> s[Nth(j)]]

\* get_pois_by_need / get_pois_by_tag: an ordered result of distinct POIs
PoiLists == {SubSeqOn([i \in 1..NumPois |-> PoiTable[i].id], K) : K \in SUBSET (1..NumPois)}

\* get_music_preference
MusicPreferences == {NoValue, "Rock"}

PoiButtons(pois) == [i \in 1..Len(pois) |-> PoiOpt(pois[i])] \o <<CancelOpt>>

(***************************************************************************)
(* The handlers are functions from a context to the set of contexts the    *)
(* oracles allow.  A context carries the session, the simulator link and   *)
(* what the handler did so far.                                            *)
(***************************************************************************)
\* parameters the classifier may attach to a tool id; NoValue / NoIndex = key absent
NoParams == [genre |-> NoValue, volume |-> NoIndex, policy |-> NoValue]

\* what the LLM may answer in one handler run: tool ids and confidences (hundredths)
NoOracle == [tools |-> {}, tool_confidences |-> {}, need_confidences |-> {}, params |-> <<>>]

Ctx(s, unity, op, text, action_id) ==
  [s |-> s, unity |-> unity, op |-> op, text |-> text, action_id |-> action_id,
   trace |-> <<>>, hit |-> NoValue, llm_calls |-> 0, tools |-> <<>>,
   ui_actions |-> <<>>, recover_lookups |-> 0, preference_lookups |-> 0, sent |-> <<>>, events |-> <<>>,
   forced |-> FALSE, payload |-> [volume |-> NoIndex],
   params |-> NoParams,
   oracle |-> NoOracle,
   tool_result |-> [has_tool |-> FALSE, confidence |-> 0, numeric |-> TRUE],
   need_result |-> [need |-> NoValue, confidence |-> 0],
   response |-> NoResponse, raised |-> FALSE,
   pre |-> [last_ui_options |-> s.last_ui_options,
            last_poi_suggestions |-> s.last_poi_suggestions,
            pending_question |-> s.pending_question,
            is_ride_active |-> s.is_ride_active, mode |-> s.mode, unity |-> unity,
            session |-> s]]

Visit(c, stage) == [c EXCEPT !.trace = Append(@, stage)]

Return(c, response) == [c EXCEPT !.response = response, !.hit = c.trace[Len(c.trace)]]

(***************************************************************************)
(* main.py : _process_side_effects                                         *)
(***************************************************************************)
\* ConnectionManager.send_to_unity: the write may fail, the error is caught
send_to_unity(c, msg) ==
  IF ~c.unity THEN {c} ELSE {c, [c EXCEPT !.sent = Append(@, msg)]}

\* a reroute considered whatever the ride state
always_allowed(c) == TRUE

\* line 739: a reroute is only considered while a ride is active
reroute_allowed(c) == c.s.is_ride_active

\* lines 748-759: the id to forward, and the number of lookups spent on it
recover_id_unity(cmd) ==
  IF cmd.id_unity # NoValue THEN {[id_unity |-> cmd.id_unity, lookups |-> 0]}
  ELSE {[id_unity |-> poi.id_unity, lookups |-> 1] : poi \in get_poi_by_id(cmd.poi_id)}

RECURSIVE _process_side_effects(_, _)
_process_side_effects(c, commands) ==
  IF commands = <<>> THEN {c}
  ELSE
    LET cmd == Head(commands)
    IN  IF cmd.type # "REROUTE_TO" \/ ~reroute_allowed(c)
        THEN _process_side_effects(c, Tail(commands))
        ELSE UNION {
               UNION { _process_side_effects(d, Tail(commands)) :
                       d \in IF c.unity
                             THEN send_to_unity(
                                    [c EXCEPT !.recover_lookups = @ + r.lookups],
                                    UnityMsg("cambio_destinazione",
                                             [poi_id |-> cmd.poi_id, poi_id_unity |-> r.id_unity]))
                             ELSE {[c EXCEPT !.recover_lookups = @ + r.lookups]} }
               : r \in recover_id_unity(cmd) }

\* a handler that returns its response as the tool left it
no_side_effects(c) == {c}

\* await _process_side_effects(response, session_id), as the handlers call it
side_effects(c) ==
  _process_side_effects([c EXCEPT !.events = Append(@, "side_effects")], c.response.commands)

(***************************************************************************)
(* services/policy.py                                                      *)
(***************************************************************************)
handle_poi_selection(c, poi_id) ==
  { IF poi = NoPoi
    THEN [c EXCEPT !.events = Append(@, "poi_selection"),
                   !.response = Response("Mi dispiace, non ho trovato il luogo selezionato.", <<>>, <<>>)]
    ELSE [c EXCEPT !.s.last_poi_suggestions = <<>>, !.events = Append(@, "poi_selection"),
                   !.response = Response(IF c.s.is_ride_active THEN "" ELSE "Perfetto! Ti sto portando a",
                                         <<>>,
                                         <<Command("REROUTE_TO", [poi_id |-> poi_id, id_unity |-> poi.id_unity])>>)]
    : poi \in get_poi_by_id(poi_id) }

handle_cancel_selection(c) ==
  [c EXCEPT !.s.last_poi_suggestions = <<>>, !.s.pending_question = NoValue, !.s.mode = "normal",
            !.response = Response("Va bene, continuiamo verso la destinazione originale.", <<>>, <<>>)]

handle_genre_selection(c, genre) ==
  [c EXCEPT !.s.pending_question = NoValue,
            !.s.music_playing = TRUE, !.s.music_genre = genre, !.s.music_paused = FALSE,
            !.response = Response("Perfetto! Ho salvato la tua preferenza e avviato", <<>>,
                                  <<Command("PLAY_MUSIC", [genre |-> genre, url |-> music_url(genre)])>>)]

handle_music_trigger(c) ==
  { IF genre # NoValue
    THEN [c EXCEPT !.s.music_playing = TRUE, !.s.music_genre = genre, !.s.music_paused = FALSE,
                   !.s.pending_question = "music_feedback", !.preference_lookups = @ + 1,
                   !.response = Response("Ho visto che ti piace",
                                         <<Plain("music_ok"), Plain("change_music"), Plain("stop_music")>>,
                                         <<Command("PLAY_MUSIC", [genre |-> genre, url |-> music_url(genre)])>>)]
    ELSE [c EXCEPT !.s.pending_question = "music_genre", !.preference_lookups = @ + 1,
                   !.response = Response("Che ne dici di un po' di musica? Che genere preferisci?",
                                         genre_options \o <<Plain("no_music")>>, <<>>)]
    : genre \in MusicPreferences }

handle_stop_music(c) ==
  [c EXCEPT !.s.music_playing = FALSE, !.s.music_genre = NoValue, !.s.music_paused = FALSE,
            !.s.pending_question = NoValue,
            !.response = Response("Musica fermata. Se hai bisogno di altro, sono qui!", <<>>,
                                  <<Command("STOP_MUSIC", NoPayload)>>)]

handle_change_music(c) ==
  [c EXCEPT !.s.pending_question = "music_genre",
            !.response = Response("Che genere preferisci?", genre_options,
                                  <<Command("STOP_MUSIC", NoPayload)>>)]
(***************************************************************************)
(* services/music_service.py and session_store.py : music                  *)
(***************************************************************************)
\* one track per genre in assets/music
AvailableGenres == {"Pop", "Rock", "Jazz", "Classica", "HipHop", "Elettronica"}

\* str.lower() on the genre and policy names the model uses
StrLower(g) ==
  CASE g = "Pop" -> "pop" [] g = "Rock" -> "rock" [] g = "Jazz" -> "jazz"
    [] g = "Classica" -> "classica" [] g = "HipHop" -> "hiphop"
    [] g = "Elettronica" -> "elettronica" [] g = "Metal" -> "metal"
    [] g = "Sport" -> "sport" [] g = "Comfort" -> "comfort" [] g = "Eco" -> "eco"
    [] g = "Turbo" -> "turbo" [] OTHER -> g

normalize_genre(genre) ==
  LET same == {a \in AvailableGenres : StrLower(a) = StrLower(genre)}
  IN  IF same = {} THEN NoValue ELSE CHOOSE a \in same : TRUE

\* nothing started
keep_music(c, genre) == c

start_music(c, genre) ==
  [c EXCEPT !.s.music_playing = TRUE, !.s.music_genre = genre, !.s.music_paused = FALSE]

stop_music(c) ==
  [c EXCEPT !.s.music_playing = FALSE, !.s.music_genre = NoValue, !.s.music_paused = FALSE]

\* the volume stored as given
store_volume(c, volume) == [c EXCEPT !.s.music_volume = volume]

set_volume(c, volume) == [c EXCEPT !.s.music_volume = Clamp(volume)]

adjust_volume(c, delta) == [c EXCEPT !.s.music_volume = Clamp(@ + delta)]

Respond(c, message, ui_options, commands) ==
  [c EXCEPT !.response = Response(message, ui_options, commands)]

(***************************************************************************)
(* tools/*.py : Tool.execute, on the context snapshot _execute_tool builds *)
(***************************************************************************)
\* str.capitalize() on the policy names the model uses
Capitalize(p) ==
  CASE p = "sport" -> "Sport" [] p = "comfort" -> "Comfort" [] p = "eco" -> "Eco"
    [] p = "turbo" -> "Turbo" [] OTHER -> p

policy_buttons == << PolicyOpt("Sport"), PolicyOpt("Comfort"), PolicyOpt("Eco") >>

\* the buttons without the ids saved
unsaved_poi_response(c, pois) == Respond(c, "Ecco cosa ho trovato:", PoiButtons(pois), <<>>)

\* tools/poi_tools.py _build_poi_response
_build_poi_response(c, pois) ==
  Respond([c EXCEPT !.s.last_poi_suggestions = pois], "Ecco cosa ho trovato:", PoiButtons(pois), <<>>)

\* the genre started, or the apology for a genre without a track
play_genre(c, genre) ==
  IF normalize_genre(genre) = NoValue
  THEN Respond(c, "Non conosco il genere", <<>>, <<>>)
  ELSE Respond(start_music(c, normalize_genre(genre)), "Avvio", <<>>,
               <<Command("PLAY_MUSIC", [genre |-> normalize_genre(genre),
                                        url |-> music_url(normalize_genre(genre))])>>)

\* the genre from the parameter, else from the stored preference, else asked for
resolve_genre(c, p) ==
  IF p.genre # NoValue THEN {play_genre(c, p.genre)}
  ELSE { IF pref # NoValue
         THEN play_genre([c EXCEPT !.preference_lookups = @ + 1], pref)
         ELSE Respond([c EXCEPT !.s.pending_question = "music_genre", !.preference_lookups = @ + 1],
                      "Che genere preferisci?", genre_options \o <<Plain("no_music")>>, <<>>)
         : pref \in MusicPreferences }

\* the switch offered while music plays
offer_switch(c) ==
  Respond(c, "La musica e' gia' accesa. Vuoi cambiare genere?",
          <<Plain("change_music"), Plain("music_ok")>>, <<>>)

\* a genre given is always played, whatever is playing
explicit_genre_first(c, p) ==
  IF p.genre # NoValue THEN {play_genre(c, p.genre)}
  ELSE IF c.s.music_playing THEN {offer_switch(c)}
  ELSE resolve_genre(c, p)

MusicPlayTool(c, p) ==
  IF c.s.music_playing
  THEN IF p.genre # NoValue /\ StrLower(p.genre) # StrLower(c.s.music_genre)
          /\ normalize_genre(p.genre) # NoValue
       THEN {Respond(start_music(c, normalize_genre(p.genre)), "Cambio a", <<>>,
                     <<Command("PLAY_MUSIC", [genre |-> normalize_genre(p.genre),
                                              url |-> music_url(normalize_genre(p.genre))])>>)}
       ELSE {offer_switch(c)}
  ELSE resolve_genre(c, p)

ChangeGenreTool(c, p) ==
  IF p.genre # NoValue /\ normalize_genre(p.genre) # NoValue
  THEN {Respond(start_music(c, normalize_genre(p.genre)), "Cambio a", <<>>,
                <<Command("PLAY_MUSIC", [genre |-> normalize_genre(p.genre), url |-> music_url(normalize_genre(p.genre))])>>)}
  ELSE {Respond([c EXCEPT !.s.pending_question = "music_genre"], "Che genere preferisci?",
                genre_options, <<>>)}

\* MusicStopTool, MusicPauseTool, MusicResumeTool, VolumeUpTool, VolumeDownTool, VolumeSetTool
MusicControlTool(c, tool_id, p) ==
  LET ask == <<Plain("ask_music"), CancelOpt>>
      vol(d) == <<Command("SET_VOLUME", [volume |-> d.s.music_volume])>>
  IN  CASE tool_id = "music_stop" ->
             IF ~c.s.music_playing THEN Respond(c, "La musica e' gia' spenta. Vuoi che la accenda?", ask, <<>>)
             ELSE Respond(stop_music(c), "Musica fermata.", <<>>, <<Command("STOP_MUSIC", NoPayload)>>)
        [] tool_id = "music_pause" ->
             IF ~c.s.music_playing THEN Respond(c, "La musica non e' in riproduzione.", <<>>, <<>>)
             ELSE Respond([c EXCEPT !.s.music_paused = TRUE], "Musica in pausa.",
                          <<Plain("resume_music")>>, <<Command("PAUSE_MUSIC", NoPayload)>>)
        [] tool_id = "music_resume" ->
             IF ~c.s.music_playing THEN Respond(c, "Non c'e' musica da riprendere. Vuoi che la metta?", ask, <<>>)
             ELSE Respond([c EXCEPT !.s.music_paused = FALSE], "Riprendo", <<>>,
                          <<Command("RESUME_MUSIC", NoPayload)>>)
        [] tool_id = "volume_up" ->
             LET d == adjust_volume(c, 2) IN Respond(d, "Volume alzato", <<>>, vol(d))
        [] tool_id = "volume_down" ->
             LET d == adjust_volume(c, -2) IN Respond(d, "Volume abbassato", <<>>, vol(d))
        [] tool_id = "volume_set" ->
             LET d == set_volume(c, IF p.volume = NoIndex THEN 5 ELSE p.volume)
             IN  Respond(d, "Volume impostato", <<>>, vol(d))

\* NeedTool, TagSearchTool, DirectPOITool: what they find depends on the keyword
\* tables and on the database; every result shape they can produce is allowed
PoiTool(c, tool_id) ==
  {_build_poi_response(c, pois) : pois \in PoiLists \ {<<>>}}
  \cup (CASE tool_id = "poi_need" ->
               {Respond(c, "Non ho capito di cosa hai bisogno.", <<>>, <<>>),
                Respond(c, "Non ho trovato nulla nelle vicinanze per questo bisogno.", <<>>, <<>>)}
          [] tool_id = "poi_tag" ->
               {Respond(c, "Non ho trovato esattamente quello che cerchi. Cosa ti serve?", need_buttons, <<>>)}
          [] tool_id = "poi_direct" ->
               {Respond(c, "Non ho trovato la tua casa nel sistema. Vuoi andare altrove?",
                        <<NeedOpt("Fame"), NeedOpt("Sete"), CancelOpt>>, <<>>),
                Respond(c, "Dove vuoi andare? Dimmi il nome del posto!", <<>>, <<>>),
                Respond(c, "Non ho trovato il posto. Vuoi che ti mostri cosa c'e' nelle vicinanze?",
                        need_buttons, <<>>)})

\* get_user_conditions + get_effective_policy: TRUE when a condition forces Comfort
PolicyOverrides == {FALSE, TRUE}

\* the user's conditions force a policy: the refusal, nothing else done
policy_forced(c) ==
  Respond([c EXCEPT !.forced = TRUE],
          "La modalita' Comfort non puo' essere cambiata per garantire la tua sicurezza.", <<>>, <<>>)

\* the request sent whatever the policy in force
request_always(c, new_policy) ==
  IF c.unity
  THEN {Respond(d, "Richiesta inviata: sto verificando se posso passare a", <<>>, <<>>) :
          d \in send_to_unity(c, UnityMsg("cambio_policy", [nuova_policy |-> new_policy]))}
  ELSE {Respond(c, "Il taxi non e' connesso. Riprova tra poco.", <<>>, <<>>)}

\* the request sent and the session's policy set at once
request_and_set(c, new_policy) ==
  IF StrLower(c.s.driving_policy) = StrLower(new_policy)
  THEN {Respond(c, "Modalita' gia' attiva.", <<>>, <<>>)}
  ELSE request_always([c EXCEPT !.s.driving_policy = new_policy], new_policy)

\* taxi_tools.py 168-205 and main.py 2834-2873: the request both
\* ChangeDrivingPolicyTool and the policy: buttons end with
request_policy(c, new_policy) ==
  IF StrLower(c.s.driving_policy) = StrLower(new_policy)
  THEN {Respond(c, "Modalita' gia' attiva.", <<>>, <<>>)}
  ELSE IF c.unity
  THEN {Respond(d, "Richiesta inviata: sto verificando se posso passare a", <<>>, <<>>) :
          d \in send_to_unity(c, UnityMsg("cambio_policy", [nuova_policy |-> new_policy]))}
  ELSE {Respond(c, "Il taxi non e' connesso. Riprova tra poco.", <<>>, <<>>)}

ChangeDrivingPolicyTool(c, p) ==
  LET requested == IF p.policy # NoValue THEN p.policy ELSE text_facts[c.text].policy
  IN  UNION {
        IF forced
        THEN {policy_forced(c)}
        ELSE IF requested = NoValue
        THEN {Respond(c, "Quale modalita' di guida preferisci?", policy_buttons, <<>>)}
        ELSE IF Capitalize(requested) \notin {"Sport", "Comfort", "Eco"}
        THEN {Respond(c, "Modalita' non riconosciuta. Scegli tra Sport, Comfort o Eco.", policy_buttons, <<>>)}
        ELSE request_policy(c, Capitalize(requested))
        : forced \in PolicyOverrides }

(***************************************************************************)
(* tools_registry.py and main.py : _execute_tool                           *)
(***************************************************************************)
\* tools/__init__.py: MUSIC_TOOLS + POI_TOOLS + TAXI_TOOLS, each tool's id and category
ALL_TOOLS ==
  << [id |-> "music_play", category |-> "music"], [id |-> "music_stop", category |-> "music"],
     [id |-> "music_pause", category |-> "music"], [id |-> "music_resume", category |-> "music"],
     [id |-> "volume_up", category |-> "music"], [id |-> "volume_down", category |-> "music"],
     [id |-> "volume_set", category |-> "music"], [id |-> "change_genre", category |-> "music"],
     [id |-> "poi_direct", category |-> "poi"], [id |-> "poi_need", category |-> "poi"],
     [id |-> "poi_tag", category |-> "poi"],
     [id |-> "change_driving_policy", category |-> "taxi"] >>

\* ToolRegistry._tools: the keys of the dict _register_all_tools fills
RegisteredTools == {ALL_TOOLS[i].id : i \in 1..Len(ALL_TOOLS)}

\* ToolRegistry.get_tool(tool_id).category
category(tool_id) == ALL_TOOLS[CHOOSE i \in 1..Len(ALL_TOOLS) : ALL_TOOLS[i].id = tool_id].category

\* every tool offered whatever the state
always_available(tool_id, s) == TRUE

\* Tool.is_available(state) of each tool class
is_available(tool_id, s) ==
  CASE tool_id = "music_play" -> ~s.music_playing
    [] tool_id = "music_pause" -> s.music_playing /\ ~s.music_paused
    [] tool_id = "music_resume" -> s.music_playing /\ s.music_paused
    [] tool_id \in {"music_stop", "volume_up", "volume_down", "volume_set", "change_genre"} ->
         s.music_playing
    [] tool_id = "change_driving_policy" -> s.mode = "normal"
    [] OTHER -> TRUE

\* ToolRegistry.get_available_tools: the ids of the tools it returns, in its order
get_available_tools(s) ==
  LET Available(t) == is_available(t.id, s)
      IsPoi(t) == t.category = "poi"
      available == SelectSeq(ALL_TOOLS, Available)
      shown == IF s.mode = "pre_ride" THEN SelectSeq(available, IsPoi) ELSE available
  IN  [i \in 1..Len(shown) |-> shown[i].id]

\* ToolRegistry.execute_tool
execute_tool(c, tool_id, p) ==
  CASE tool_id = "music_play" -> MusicPlayTool(c, p)
    [] tool_id = "change_genre" -> ChangeGenreTool(c, p)
    [] tool_id = "change_driving_policy" -> ChangeDrivingPolicyTool(c, p)
    [] tool_id \in {"poi_need", "poi_tag", "poi_direct"} -> PoiTool(c, tool_id)
    [] tool_id \in RegisteredTools -> {MusicControlTool(c, tool_id, p)}
    [] OTHER -> {}

\* an answer for the unknown id that still offers the need buttons
not_found_with_buttons(c) == Respond(c, "Tool non trovato.", need_buttons, <<>>)

\* main.py 2322-2329: the registry returned None
tool_not_found(c) == Respond(c, "Tool non trovato.", <<>>, <<>>)

_execute_tool(c, tool_id, params) ==
  LET genre == IF tool_id \in {"music_play", "change_genre"} /\ params.genre = NoValue
               THEN text_facts[c.text].genre ELSE params.genre
      volume == IF tool_id = "volume_set" /\ params.volume = NoIndex
                THEN text_facts[c.text].volume ELSE params.volume
      p == [genre |-> genre, volume |-> volume, policy |-> params.policy]
      d == [c EXCEPT !.tools = Append(@, tool_id), !.events = Append(@, "tool"),
                     !.params = p]
  IN  IF tool_id \in RegisteredTools THEN execute_tool(d, tool_id, p)
      ELSE {tool_not_found(d)}

(***************************************************************************)
(* main.py : _handle_need_request and handle_ui_action                     *)
(***************************************************************************)
_handle_need_request(c) ==
  { IF pois = <<>>
    THEN Respond(c, "Mi dispiace, non ho trovato luoghi nelle vicinanze.", <<>>, <<>>)
    ELSE Respond([c EXCEPT !.s.last_poi_suggestions = pois], "Ecco cosa ho trovato:",
                 PoiButtons(pois), <<>>)
    : pois \in PoiLists }

quick_needs == {"fame", "sete", "malessere", "divertimento", "shopping"}

\* lines 2766-2767: a click closes the options on offer
close_ui_options(c) == [c EXCEPT !.s.last_ui_options = <<>>]

handle_ui_action(c0, action_id) ==
  LET c == [close_ui_options(c0) EXCEPT !.ui_actions = Append(@, action_id)]
      id == action_id.v
  IN  CASE action_id.k = "poi" \/ action_id = Plain("poi_select") ->
             UNION {side_effects(d) :
                    d \in handle_poi_selection(c, IF action_id.k = "poi" THEN id ELSE "poi_select")}
        [] action_id.k = "genre" -> {handle_genre_selection(c, id)}
        [] action_id.k = "policy" ->
             IF Capitalize(id) \notin {"Sport", "Comfort", "Eco"}
             THEN {Respond(c, "Modalita' non riconosciuta. Scegli tra Sport, Comfort o Eco.", <<>>, <<>>)}
             ELSE UNION {
                    IF forced
                    THEN {policy_forced(c)}
                    ELSE request_policy(c, Capitalize(id))
                    : forced \in PolicyOverrides }
        [] action_id.k = "plain" /\ id \in {"cancel", "no_music", "no_tour"} ->
             IF id = "no_music" \/ c.s.pending_question \in {"music_genre", "music_feedback"}
             THEN {Respond([c EXCEPT !.s.pending_question = NoValue],
                           "Ok, niente musica! Se cambi idea, dimmelo.", <<>>, <<>>)}
             ELSE IF id = "no_tour" \/ c.s.pending_question = "tour"
             THEN {Respond([c EXCEPT !.s.pending_question = NoValue, !.s.mode = "normal"],
                           "Va bene, continuiamo verso la destinazione!", <<>>, <<>>)}
             ELSE {handle_cancel_selection(c)}
        [] action_id.k = "poi_need" -> _handle_need_request(c)
        [] action_id.k = "quick" ->
             IF id \in quick_needs THEN _handle_need_request(c) ELSE {c}
        [] action_id = Plain("stop_music") -> {handle_stop_music(c)}
        [] action_id = Plain("change_music") -> {handle_change_music(c)}
        [] action_id = Plain("ask_music") -> handle_music_trigger(c)
        [] action_id = Plain("show_pois") ->
             { IF pois = <<>>
               THEN Respond(c, "Mi dispiace, non ho trovato punti di interesse nelle vicinanze.", <<>>, <<>>)
               ELSE Respond([c EXCEPT !.s.last_poi_suggestions = pois],
                            "Ecco alcuni punti di interesse nelle vicinanze:", PoiButtons(pois), <<>>)
               : pois \in PoiLists }
        [] action_id = Plain("music_ok") ->
             {Respond([c EXCEPT !.s.pending_question = NoValue], "Perfetto, buon viaggio!", <<>>, <<>>)}
        [] action_id = Plain("pause_music") ->
             {Respond([c EXCEPT !.s.music_paused = TRUE], "Musica in pausa.", <<>>,
                      <<Command("PAUSE_MUSIC", NoPayload)>>)}
        [] action_id = Plain("resume_music") ->
             {Respond([c EXCEPT !.s.music_paused = FALSE], "Riprendo la musica!", <<>>,
                      <<Command("RESUME_MUSIC", NoPayload)>>)}
        [] action_id = Plain("volume_set") ->
             LET d == set_volume(c, IF c.payload.volume = NoIndex THEN 5 ELSE c.payload.volume)
             IN  {Respond(d, "Volume impostato", <<>>, <<Command("SET_VOLUME", [volume |-> d.s.music_volume])>>)}
        [] OTHER -> {Respond(c, "Azione ricevuta.", <<>>, <<>>)}
(***************************************************************************)
(* llm/intent_classifier.py : classify_with_tools and classify_need.       *)
(* Confidences are in hundredths.  classify_with_tools hands on the        *)
(* "confidence" of the JSON answer unconverted, so it may be no number;    *)
(* classify_need converts with float() and answers (None, 0.0) on error.   *)
(***************************************************************************)
ToolAnswers(tool_ids, confidences, params) ==
  {[tool_id |-> NoValue, params |-> NoParams, confidence |-> 0, numeric |-> TRUE]}
  \cup UNION {{[tool_id |-> t, params |-> p, confidence |-> k, numeric |-> TRUE] :
                  k \in confidences, p \in params[t]} : t \in tool_ids}
  \cup {[tool_id |-> t, params |-> NoParams, confidence |-> 0, numeric |-> FALSE] :
          t \in tool_ids}

NeedAnswers(confidences) ==
  {[need |-> NoValue, confidence |-> k] : k \in {0} \cup confidences}
  \cup {[need |-> "Fame", confidence |-> k] : k \in confidences}

\* main.py 1212: tool_result.tool_id and tool_result.confidence >= 0.6
pre_ride_tool_accepted(r) == r.tool_id # NoValue /\ r.confidence >= 60

\* main.py 1238: classify_result.need and classify_result.confidence >= 0.5
pre_ride_need_accepted(r) == r.need # NoValue /\ r.confidence >= 50

\* a tool id accepted at any confidence
any_tool_accepted(r) == r.tool_id # NoValue

\* main.py 990: tool_result.tool_id and tool_result.confidence >= 0.7
tool_accepted(r) == r.tool_id # NoValue /\ r.confidence >= 70

\* main.py 1084: classify_result.need and classify_result.confidence >= 0.65
need_accepted(r) == r.need # NoValue /\ r.confidence >= 65

\* the comparison of a confidence that is no number with a float raises TypeError
confidence_raises(r) == r.tool_id # NoValue /\ ~r.numeric

\* what a handler run records of the classifier's answers
SeenTool(r) == [has_tool |-> r.tool_id # NoValue, confidence |-> r.confidence, numeric |-> r.numeric]

(***************************************************************************)
(* main.py : websocket_endpoint, the part around handle_message            *)
(***************************************************************************)
ErrorResponse == [type |-> "error", message |-> "Internal error", ui_options |-> <<>>, commands |-> <<>>]

\* an exception leaves the handler; the endpoint answers with an error
Raise(c) == [c EXCEPT !.raised = TRUE, !.response = ErrorResponse]

\* the handler returns at the stage it visited last
Hit(c) == [c EXCEPT !.hit = c.trace[Len(c.trace)]]

\* lines 596-600: a response that offers options makes them the active ones;
\* a handler that returned None makes response.get raise
after_handle_message(c) ==
  IF c.raised THEN c
  ELSE IF c.response = NoResponse THEN Raise(c)
  ELSE IF c.response.ui_options # <<>>
  THEN [c EXCEPT !.s.last_ui_options = c.response.ui_options]
  ELSE c

\* the options the pending-POI stage builds: a suggestion whose lookup fails is left out
FoundOptions(suggestions) ==
  { [j \in 1..Cardinality(K) |-> PoiOpt(SubSeqOn(suggestions, K)[j])] \o <<CancelOpt>>
    : K \in SUBSET (1..Len(suggestions)) }

\* every result match_option can give for one message and option list
MatchResults(text, options) ==
  {match_option(text, options, answer) : answer \in MatchAnswers(options)}
(***************************************************************************)
(* main.py : handle_user_message, one operator per stage.  A stage either  *)
(* returns (Hit) or hands the context to the next stage.                   *)
(***************************************************************************)
fallback_buttons == << QuickOpt("fame"), QuickOpt("sete"), QuickOpt("malessere") >>

\* lines 1096-1112
fallback_stage(c0) ==
  LET c == Visit(c0, "fallback")
  IN  {Return([c EXCEPT !.llm_calls = @ + 1], Response("conversational", fallback_buttons, <<>>))}

\* lines 1077-1094
need_stage(c0) ==
  LET c == Visit(c0, "need_classification")
      asked == {[c EXCEPT !.llm_calls = @ + 1, !.need_result = r] : r \in NeedAnswers(c.oracle.need_confidences)}
  IN  UNION { IF need_accepted(d.need_result)
              THEN {Hit(e) : e \in _handle_need_request([d EXCEPT !.s.last_poi_suggestions = <<>>])}
              ELSE fallback_stage(d)
              : d \in asked }

\* lines 1029-1074
poi_selection_stage(c0) ==
  IF c0.s.last_poi_suggestions = <<>> THEN need_stage(c0)
  ELSE
    LET c == Visit(c0, "poi_selection")
        results == UNION {MatchResults(c.text, options) :
                            options \in FoundOptions(c.s.last_poi_suggestions)}
        selects == {m \in results : m.action = "select" /\ m.selected_id # NoId}
        cancels == {m \in results \ selects : m.action = "cancel"}
        Asked(k) == [c EXCEPT !.llm_calls = @ + k]
    IN  UNION { UNION { {Hit(f) : f \in side_effects([e EXCEPT !.s.last_poi_suggestions = <<>>])}
                        : e \in handle_poi_selection(Asked(m.llm_calls), m.selected_id.v) }
                : m \in {[selected_id |-> m.selected_id, llm_calls |-> m.llm_calls] : m \in selects} }
        \cup {Return([Asked(k) EXCEPT !.s.last_poi_suggestions = <<>>],
                     Response("Va bene! Continuiamo verso la destinazione.", <<>>, <<>>))
              : k \in {m.llm_calls : m \in cancels}}
        \cup UNION {need_stage(Asked(k)) : k \in {m.llm_calls : m \in results \ (selects \cup cancels)}}

\* the pipeline without the heuristic stage
skip_heuristic_policy(c0) == poi_selection_stage(c0)

\* the heuristic stage tried whatever the session mode
heuristic_any_mode(c0) ==
  LET c == Visit(c0, "heuristic_policy")
      direct_policy == text_facts[c.text].policy
  IN  IF direct_policy # NoValue
      THEN UNION { {Hit(f) : f \in side_effects(e)}
                   : e \in _execute_tool(c, "change_driving_policy",
                                         [NoParams EXCEPT !.policy = direct_policy]) }
      ELSE poi_selection_stage(c)

\* lines 1006-1026
heuristic_policy_stage(c0) ==
  IF c0.s.mode # "normal" THEN poi_selection_stage(c0)
  ELSE
    LET c == Visit(c0, "heuristic_policy")
        direct_policy == text_facts[c.text].policy
    IN  IF direct_policy # NoValue
        THEN UNION { {Hit(f) : f \in side_effects(e)}
                     : e \in _execute_tool(c, "change_driving_policy",
                                           [NoParams EXCEPT !.policy = direct_policy]) }
        ELSE poi_selection_stage(c)

\* lines 958-1003
tool_stage(c0) ==
  LET c == Visit(c0, "tool_classification")
      answers == ToolAnswers(c.oracle.tools, c.oracle.tool_confidences, c.oracle.params)
      Asked(r) == [c EXCEPT !.llm_calls = @ + 1, !.tool_result = SeenTool(r)]
      misses == {Asked(r) : r \in {r \in answers : ~confidence_raises(r) /\ ~tool_accepted(r)}}
  IN  {Raise(Asked(r)) : r \in {r \in answers : confidence_raises(r)}}
      \cup UNION { UNION { {Hit(f) : f \in side_effects(e)}
                           : e \in _execute_tool(Asked(r), r.tool_id, r.params) }
                   : r \in {r \in answers : ~confidence_raises(r) /\ tool_accepted(r)} }
      \cup UNION {heuristic_policy_stage(d) : d \in misses}

\* what match_option's results make the stage do: the ids selected, whether a
\* cancel came back, and the LLM calls spent, for each way on
MatchOutcomes(text, options) ==
  LET results == MatchResults(text, options)
      selects == {m \in results : m.action = "select" /\ m.selected_id # NoId}
      cancels == {m \in results \ selects : m.action = "cancel"}
  IN  [selects |-> {[selected_id |-> m.selected_id, llm_calls |-> m.llm_calls] : m \in selects},
       cancels |-> {m.llm_calls : m \in cancels},
       others  |-> {m.llm_calls : m \in results \ (selects \cup cancels)}]

\* lines 940 and 949: update_session(last_ui_options=[], last_poi_suggestions=[])
clear_offered(c) == [c EXCEPT !.s.last_ui_options = <<>>, !.s.last_poi_suggestions = <<>>]

\* lines 935-955 (and 1178-1196): the answer to the options on offer
option_matching(c, Continue(_)) ==
  LET out == MatchOutcomes(c.text, c.s.last_ui_options)
      Asked(k) == [c EXCEPT !.llm_calls = @ + k]
  IN  UNION {{Hit(e) : e \in handle_ui_action(clear_offered(Asked(m.llm_calls)), m.selected_id)}
             : m \in out.selects}
      \cup UNION {{Hit(e) : e \in handle_ui_action(clear_offered(Asked(k)), CancelOpt)} : k \in out.cancels}
      \cup UNION {Continue(Asked(k)) : k \in out.others}

option_matching_stage(c0) ==
  IF c0.s.last_ui_options = <<>> THEN tool_stage(c0)
  ELSE option_matching(Visit(c0, "option_matching"), tool_stage)

negation_buttons == quick_buttons \o <<CancelOpt>>

\* the fixed answer alone, the session left as it is
decline_only(c) ==
  Return(c, Response("Va bene, nessun problema! Se hai bisogno di qualcosa, sono qui.", <<>>, <<>>))

\* a pipeline without the negation stage's test
never_blocks(analysis) == FALSE

\* line 917: a negation keeps the message away from the classifiers
negation_first(analysis) == analysis.has_negation

\* lines 845-857: the state a simple rejection leaves and its fixed answer
simple_rejection(c) ==
  Return([c EXCEPT !.s.last_poi_suggestions = <<>>, !.s.pending_question = NoValue],
         Response("Va bene, nessun problema! Se hai bisogno di qualcosa, sono qui.", <<>>, <<>>))

\* lines 784-931, then the stages above
handle_user_message(c0) ==
  LET facts == text_facts[c0.text]
      c1 == Visit(c0, "simple_rejection")
      c2 == Visit(c1, "simple_confirmation")
      c3 == Visit(c2, "help_request")
      c4 == Visit(c3, "greeting")
      c5 == Visit(c4, "negation")
  IN  IF facts.analysis.is_simple_rejection
      THEN {simple_rejection(c1)}
      ELSE IF facts.analysis.is_simple_confirmation
      THEN {Return(c2, Response("Ricevuto! Continuiamo verso la destinazione.", <<>>, <<>>))}
      ELSE IF facts.help
      THEN {Return(c3, Response("Ecco cosa posso fare per te:", quick_buttons, <<>>))}
      ELSE IF facts.greeting
      THEN {Return(c4, Response("Ciao! Come posso aiutarti durante il viaggio?", quick_buttons, <<>>))}
      ELSE IF negation_first(facts.analysis)
      THEN {Return(c5, Response("Ho capito. C'e' qualcos'altro che posso fare per te?", negation_buttons, <<>>))}
      ELSE option_matching_stage(c5)

(***************************************************************************)
(* main.py : handle_pre_ride_message                                       *)
(***************************************************************************)
pre_ride_buttons == << QuickOpt("fame"), QuickOpt("sete"), QuickOpt("shopping") >>

clarification_buttons ==
  << QuickOpt("fame"), QuickOpt("sete"), QuickOpt("malessere"),
     QuickOpt("divertimento"), QuickOpt("shopping") >>

\* lines 1232-1262
pre_ride_need_stage(c0) ==
  LET c == Visit(c0, "need_classification")
      asked == {[c EXCEPT !.llm_calls = @ + 1, !.need_result = r] : r \in NeedAnswers(c.oracle.need_confidences)}
  IN  UNION { IF pre_ride_need_accepted(d.need_result)
              THEN {Hit(e) : e \in _handle_need_request(d)}
              ELSE {Return(Visit(d, "fallback"),
                           Response("Non ho capito bene. Dimmi dove vuoi andare o cosa stai cercando!",
                                    clarification_buttons, <<>>))}
              : d \in asked }

\* lines 1198-1230
pre_ride_tool_stage(c0) ==
  LET c == Visit(c0, "tool_classification")
      answers == ToolAnswers(c.oracle.tools, c.oracle.tool_confidences, c.oracle.params)
      Asked(r) == [c EXCEPT !.llm_calls = @ + 1, !.tool_result = SeenTool(r)]
      misses == {Asked(r) : r \in {r \in answers : ~confidence_raises(r) /\ ~pre_ride_tool_accepted(r)}}
  IN  {Raise(Asked(r)) : r \in {r \in answers : confidence_raises(r)}}
      \cup UNION { {Hit(e) : e \in _execute_tool(Asked(r), r.tool_id, r.params)}
                   : r \in {r \in answers : ~confidence_raises(r) /\ pre_ride_tool_accepted(r)} }
      \cup UNION {pre_ride_need_stage(d) : d \in misses}

\* lines 1115-1196
handle_pre_ride_message(c00) ==
  LET c0 == [c00 EXCEPT !.s.mode = "pre_ride"]
      facts == text_facts[c0.text]
      c1 == Visit(c0, "greeting")
      c2 == Visit(c1, "help_request")
  IN  IF facts.greeting
      THEN {Return(c1, Response("Ciao! Dimmi dove vuoi andare.", pre_ride_buttons, <<>>))}
      ELSE IF facts.help
      THEN {Return(c2, Response("Dimmi dove vuoi andare! Puoi:", pre_ride_buttons, <<>>))}
      ELSE IF c2.s.last_ui_options = <<>> THEN pre_ride_tool_stage(c2)
      ELSE option_matching(Visit(c2, "option_matching"), pre_ride_tool_stage)
(***************************************************************************)
(* The state machine: one chat session and the simulator link              *)
(***************************************************************************)
VARIABLES
  session,          \* session_store: the SessionState of the chat session
  unity_connected,  \* connection_manager.unity_connection is not None
  last,             \* what the last handler run did and returned
  call,             \* a direct call of match_option and its result
  store             \* session_store._sessions and the handlers running on it

vars == <<session, unity_connected, last, call, text_facts, store>>

\* a handler run without the session it ran on
Observe(c) == [f \in (DOMAIN c) \ {"s"} |-> c[f]]

NoCall == [message |-> <<>>, options |-> <<>>, done |-> FALSE,
           result |-> MatchResult(NoId, "unclear", 0)]

\* SessionStore(): no session yet, no handler running
NoStore == [sessions |-> [i \in {} |-> SessionState], running |-> [i \in {} |-> SessionState],
            handled |-> NoValue]

\* no response is being produced
Idle == Observe(Ctx(SessionState, FALSE, "idle", "", NoId))

Init ==
  /\ session = SessionState
  /\ unity_connected = FALSE
  /\ last = Idle
  /\ call = NoCall
  /\ text_facts = TextFacts
  /\ store = NoStore

\* websocket_endpoint: the handler's session writes stay, the response is sent
Deliver(c) ==
  LET d == after_handle_message(c)
  IN  /\ session' = d.s
      /\ last' = Observe(d)
      /\ UNCHANGED <<unity_connected, call, text_facts, store>>

\* type = "user_message"
UserMessage(messages, oracle) ==
  /\ last = Idle
  /\ \E text \in messages :
    \E c \in handle_user_message(
               [Ctx(session, unity_connected, "user_message", text, NoId)
                  EXCEPT !.oracle = oracle]) :
      Deliver(c)

\* type = "pre_ride_message"
PreRideMessage(messages, oracle) ==
  /\ last = Idle
  /\ \E text \in messages :
    \E c \in handle_pre_ride_message(
               [Ctx(session, unity_connected, "pre_ride_message", text, NoId)
                  EXCEPT !.oracle = oracle]) :
      Deliver(c)

\* the buttons the chat client can send: the ones on offer and the cancel button
Clickable == OptionSet(session.last_ui_options) \cup {CancelOpt}

\* type = "ui_action"
UIAction(buttons) ==
  /\ last = Idle
  /\ \E action_id \in Clickable \cap buttons :
    \E c \in handle_ui_action(Ctx(session, unity_connected, "ui_action", "", action_id), action_id) :
      Deliver(c)

\* type = "risposta_prenotazione", esito = "confermato" (sent by the simulator)
BookingConfirmed(policies) ==
  /\ last = Idle
  /\ unity_connected
  /\ ~session.is_ride_active
  /\ \E effective_policy \in policies :
       session' = [session EXCEPT
                     !.driving_policy = IF effective_policy # NoValue THEN effective_policy ELSE @,
                     !.is_ride_active = TRUE, !.mode = "normal"]
  /\ UNCHANGED <<unity_connected, last, call, text_facts, store>>

\* type = "risposta_fine_corsa", esito = "confermato" (sent by the simulator)
EndRideConfirmed ==
  /\ last = Idle
  /\ unity_connected
  /\ session.is_ride_active
  /\ session' = [session EXCEPT !.is_ride_active = FALSE, !.music_playing = FALSE,
                                !.music_genre = NoValue, !.music_paused = FALSE,
                                !.mode = "normal"]
  /\ UNCHANGED <<unity_connected, last, call, text_facts, store>>

\* the simulator's first ping
RegisterUnity ==
  /\ last = Idle
  /\ ~unity_connected
  /\ unity_connected' = TRUE
  /\ UNCHANGED <<session, last, call, text_facts, store>>

\* WebSocketDisconnect on the simulator's socket
UnregisterUnity ==
  /\ last = Idle
  /\ unity_connected
  /\ unity_connected' = FALSE
  /\ UNCHANGED <<session, last, call, text_facts, store>>

\* the messages and classifier tool ids the pipeline is explored with
PipelineMessages ==
  {"no grazie", "no", "ok", "aiuto", "ciao", "non voglio musica", "il secondo",
   "che ore sono", "vai veloce"}

PreRideMessages == {"ciao", "aiuto", "che ore sono"}

\* the classifier's answers: tool ids, and confidences next to each threshold
InRideOracle ==
  [tools |-> {"poi_need", "teleport"}, tool_confidences |-> {69, 70}, need_confidences |-> {64, 65},
   params |-> [t \in {"poi_need", "teleport"} |-> {NoParams}]]

PreRideOracle ==
  [tools |-> {"poi_need", "teleport", "change_driving_policy"}, tool_confidences |-> {59, 60}, need_confidences |-> {49, 50},
   params |-> [t \in {"poi_need", "teleport", "change_driving_policy"} |-> {NoParams}]]

\* websocket.send_text(response_json): the response leaves, the next message is read
SendResponse ==
  /\ last # Idle
  /\ last' = Idle
  /\ UNCHANGED <<session, unity_connected, call, text_facts, store>>

\* the buttons the user presses: a POI, cancel, and the music offer
PipelineButtons == {PoiOpt(p) : p \in POIs} \cup {CancelOpt, Plain("ask_music")}

\* the effective policy a pending booking carries (NoValue: none)
PipelinePolicies == {NoValue}

Next ==
  \/ UserMessage(PipelineMessages, InRideOracle)
  \/ PreRideMessage(PreRideMessages, PreRideOracle)
  \/ UIAction(PipelineButtons)
  \/ BookingConfirmed(PipelinePolicies)
  \/ EndRideConfirmed
  \/ RegisterUnity
  \/ UnregisterUnity
  \/ SendResponse

Spec == Init /\ [][Next]_vars

(***************************************************************************)
(* match_option called directly: the inputs are drawn at the start and     *)
(* when a call has returned                                                *)
(***************************************************************************)
\* the option lists match_option is called with: the prefixes of this one
OfferedOptions == << PoiOpt("POI_1"), PoiOpt("POI_2"), GenreOpt("Jazz"), CancelOpt >>

OptionLists == {SubSeq(OfferedOptions, 1, n) : n \in 0..Len(OfferedOptions)}

Calls == {[NoCall EXCEPT !.message = m, !.options = o] : m \in Messages, o \in OptionLists}

InitMatch ==
  /\ session = SessionState
  /\ unity_connected = FALSE
  /\ last = Idle
  /\ call \in Calls
  /\ text_facts = TextFacts
  /\ store = NoStore

MatchOption ==
  /\ ~call.done
  /\ \E answer \in MatchAnswers(call.options) :
       call' = [call EXCEPT !.done = TRUE,
                            !.result = match_option(call.message, call.options, answer)]
  /\ UNCHANGED <<session, unity_connected, last, text_facts, store>>

NextCall ==
  /\ call.done
  /\ call' \in Calls
  /\ UNCHANGED <<session, unity_connected, last, text_facts, store>>

NextMatch == MatchOption \/ NextCall

SpecMatch == InitMatch /\ [][NextMatch]_vars


(***************************************************************************)
(* get_available_tools called directly: the session state is drawn at the  *)
(* start and again when the calls on it have returned                      *)
(***************************************************************************)
\* calls of get_available_tools made on one state
MaxCalls == 2

\* the session states the registry is asked about
ToolStates ==
  {[SessionState EXCEPT !.mode = mode, !.music_playing = playing,
                        !.music_paused = playing /\ paused,
                        !.music_genre = IF playing THEN genre ELSE NoValue,
                        !.is_ride_active = ride, !.driving_policy = policy] :
     mode \in {"normal", "pre_ride"}, playing \in BOOLEAN, paused \in BOOLEAN,
     genre \in {"Rock", "Jazz"}, ride \in BOOLEAN, policy \in {"Sport", "Comfort", "Eco"}}

NoToolCalls == [results |-> <<>>]

InitTools ==
  /\ session \in ToolStates
  /\ unity_connected = FALSE
  /\ last = Idle
  /\ call = NoToolCalls
  /\ text_facts = TextFacts
  /\ store = NoStore

\* build_tools_prompt / match_pattern: one call of get_available_tools(state)
GetAvailableTools ==
  /\ Len(call.results) < MaxCalls
  /\ call' = [call EXCEPT !.results = Append(@, get_available_tools(session))]
  /\ UNCHANGED <<session, unity_connected, last, text_facts, store>>

NextToolState ==
  /\ Len(call.results) = MaxCalls
  /\ session' \in ToolStates
  /\ call' = NoToolCalls
  /\ UNCHANGED <<unity_connected, last, text_facts, store>>

NextTools == GetAvailableTools \/ NextToolState

SpecTools == InitTools /\ [][NextTools]_vars

(***************************************************************************)
(* The driving policy: the requests of the chat side and the simulator's   *)
(* confirmations, explored with the messages, tool and buttons about it    *)
(***************************************************************************)
\* type = "unity_message", action = "explainability" carrying a policy
\* (main.py 1393-1418): the simulator tells which policy is now in force
PolicyNotification(policies) ==
  /\ last = Idle
  /\ unity_connected
  /\ \E new_policy \in policies :
       session' = [session EXCEPT !.driving_policy = new_policy]
  /\ UNCHANGED <<unity_connected, last, call, text_facts, store>>

PolicyMessages == {"vai veloce", "vai piano", "che ore sono"}

PolicyOracle ==
  [tools |-> {"change_driving_policy"}, tool_confidences |-> {69, 70}, need_confidences |-> {64},
   params |-> [t \in {"change_driving_policy"} |-> {NoParams}]]

PreRidePolicyOracle ==
  [tools |-> {"change_driving_policy"}, tool_confidences |-> {59, 60}, need_confidences |-> {49},
   params |-> [t \in {"change_driving_policy"} |-> {NoParams}]]

PolicyButtons == {PolicyOpt("Sport"), PolicyOpt("Comfort"), PolicyOpt("Eco"), CancelOpt}

\* the effective policy a confirmed booking carries
BookingPolicies == {NoValue, "Comfort"}

NotifiedPolicies == {"Eco", "Sport"}

NextPolicy ==
  \/ UserMessage(PolicyMessages, PolicyOracle)
  \/ PreRideMessage(PolicyMessages, PreRidePolicyOracle)
  \/ UIAction(PolicyButtons)
  \/ BookingConfirmed(BookingPolicies)
  \/ PolicyNotification(NotifiedPolicies)
  \/ EndRideConfirmed
  \/ RegisterUnity
  \/ UnregisterUnity
  \/ SendResponse

SpecPolicy == Init /\ [][NextPolicy]_vars

(***************************************************************************)
(* The music tools: messages the classifier answers with a music tool and  *)
(* parameters, the buttons the music responses offer, the volume button    *)
(***************************************************************************)
MusicMessages == {"metti del jazz", "che ore sono"}

MusicTools ==
  {"music_play", "change_genre", "music_stop", "music_pause", "music_resume",
   "volume_up", "volume_down", "volume_set"}

\* the params the classifier attaches: a genre known, unknown or absent for
\* the tools that read one, a volume below or above the range or absent
MusicParams ==
  [t \in MusicTools |->
     {NoParams}
     \cup (IF t \in {"music_play", "change_genre"}
           THEN {[NoParams EXCEPT !.genre = g] : g \in {"rock", "polka"}} ELSE {})
     \cup (IF t = "volume_set"
           THEN {[NoParams EXCEPT !.volume = v] : v \in {0, 11}} ELSE {})]

MusicOracle ==
  [tools |-> MusicTools, tool_confidences |-> {70}, need_confidences |-> {64},
   params |-> MusicParams]

MusicButtons ==
  {GenreOpt("Jazz"), Plain("change_music"), Plain("resume_music"), CancelOpt}

ButtonVolumes == {NoIndex, 0, 11}

\* type = "ui_action", action_id = "volume_set", payload = {"volume": v}
VolumeSetAction(volumes) ==
  /\ last = Idle
  /\ \E volume \in volumes :
    \E c \in handle_ui_action(
               [Ctx(session, unity_connected, "ui_action", "", Plain("volume_set"))
                  EXCEPT !.payload.volume = volume], Plain("volume_set")) :
      Deliver(c)

NextMusic ==
  \/ UserMessage(MusicMessages, MusicOracle)
  \/ UIAction(MusicButtons)
  \/ VolumeSetAction(ButtonVolumes)
  \/ SendResponse

SpecMusic == Init /\ [][NextMusic]_vars

(***************************************************************************)
(* The end of a ride: the simulator's confirmation and the old trigger     *)
(***************************************************************************)
\* SessionStore.clear_session
clear_session(c) ==
  [c EXCEPT !.s.pending_question = NoValue, !.s.last_poi_suggestions = <<>>,
            !.s.last_ui_options = <<>>, !.s.mode = "normal",
            !.s.music_playing = FALSE, !.s.music_genre = NoValue, !.s.music_paused = FALSE,
            !.s.is_ride_active = FALSE]

\* handle_trigger, for the triggers that need neither the repository nor the simulator
handle_trigger(c, name) ==
  CASE name = "ARRIVED_PICKUP" ->
         {Respond(c, "Benvenuto a bordo! Dove la porto oggi?", <<>>, <<>>)}
    [] name = "END_RIDE_OLD" ->
         {Respond(clear_session(c), "Grazie per aver viaggiato con noi! Arrivederci e buona giornata!",
                  <<>>, <<Command("END_RIDE", NoPayload)>>)}

\* type = "trigger"
Trigger(names) ==
  /\ last = Idle
  /\ \E name \in names :
    \E c \in handle_trigger(Ctx(session, unity_connected, "trigger", "", NoId), name) :
      Deliver(c)

RideEndTriggers == {"ARRIVED_PICKUP", "END_RIDE_OLD"}

RideEndButtons == {Plain("ask_music"), Plain("stop_music"), Plain("change_music"), CancelOpt}

RideEndMessages == {"ciao"}

NextRideEnd ==
  \/ UserMessage(RideEndMessages, InRideOracle)
  \/ UIAction(RideEndButtons)
  \/ VolumeSetAction(ButtonVolumes)
  \/ Trigger(RideEndTriggers)
  \/ BookingConfirmed(PipelinePolicies)
  \/ EndRideConfirmed
  \/ RegisterUnity
  \/ UnregisterUnity
  \/ SendResponse

SpecRideEnd == Init /\ [][NextRideEnd]_vars

(***************************************************************************)
(* session_store._sessions: several chat sessions handled concurrently.    *)
(* A handler holds the object get_session returned for its session id; it *)
(* starts when its message is read and ends when its response is sent, and *)
(* the handlers of other sessions run in between at its awaits.            *)
(***************************************************************************)
SessionIds == {"A", "B"}

\* SessionStore.get_session: the session is created on first reference
get_session(sessions, session_id) ==
  [i \in DOMAIN sessions \cup {session_id} |->
     IF i \in DOMAIN sessions THEN sessions[i] ELSE SessionState]

\* every session replaced at once
put_everywhere(sessions, session_id, s) ==
  [i \in DOMAIN sessions \cup {session_id} |-> s]

\* the handler's writes reach the object kept under its session id
put_session(sessions, session_id, s) ==
  [i \in DOMAIN sessions \cup {session_id} |-> IF i = session_id THEN s ELSE sessions[i]]

StoreMessages == {"ciao"}

StoreButtons == {Plain("ask_music"), CancelOpt}

\* handle_message for one session id: the session is looked up, the handler
\* runs to the state it will leave behind
Handle(session_id, finals) ==
  /\ session_id \notin DOMAIN store.running
  /\ \E s \in finals :
       store' = [sessions |-> get_session(store.sessions, session_id),
                 running |-> put_session(store.running, session_id, s),
                 handled |-> session_id]
  /\ UNCHANGED <<session, unity_connected, last, call, text_facts>>

\* the session a message for this id is handled on
SessionOf(session_id) == get_session(store.sessions, session_id)[session_id]

StoreUserMessage(session_id) ==
  Handle(session_id,
         {after_handle_message(c).s :
            c \in UNION {handle_user_message(
                           [Ctx(SessionOf(session_id), unity_connected, "user_message", text, NoId)
                              EXCEPT !.oracle = InRideOracle]) : text \in StoreMessages}})

StorePreRideMessage(session_id) ==
  Handle(session_id,
         {after_handle_message(c).s :
            c \in UNION {handle_pre_ride_message(
                           [Ctx(SessionOf(session_id), unity_connected, "pre_ride_message", text, NoId)
                              EXCEPT !.oracle = PreRideOracle]) : text \in {"ciao"}}})

StoreUIAction(session_id) ==
  Handle(session_id,
         {after_handle_message(c).s :
            c \in UNION {handle_ui_action(
                           Ctx(SessionOf(session_id), unity_connected, "ui_action", "", action_id),
                           action_id) :
                         action_id \in (OptionSet(SessionOf(session_id).last_ui_options)
                                        \cup {CancelOpt}) \cap StoreButtons}})

StoreTrigger(session_id) ==
  Handle(session_id,
         {after_handle_message(c).s :
            c \in UNION {handle_trigger(
                           Ctx(SessionOf(session_id), unity_connected, "trigger", "", NoId), name) :
                         name \in RideEndTriggers}})

\* the handler's writes are in the store and its response is sent
StoreReply(session_id) ==
  /\ session_id \in DOMAIN store.running
  /\ store' = [sessions |-> put_session(store.sessions, session_id, store.running[session_id]),
               running |-> [i \in DOMAIN store.running \ {session_id} |-> store.running[i]],
               handled |-> session_id]
  /\ UNCHANGED <<session, unity_connected, last, call, text_facts>>

NextStore ==
  \E session_id \in SessionIds :
    \/ StoreUserMessage(session_id)
    \/ StorePreRideMessage(session_id)
    \/ StoreUIAction(session_id)
    \/ StoreTrigger(session_id)
    \/ StoreReply(session_id)

SpecStore == Init /\ [][NextStore]_vars

(***************************************************************************)
(* llm/intent_classifier.py : classify_with_tools and classify_need called *)
(* directly on what the LLM may answer.  Confidences are in hundredths.    *)
(***************************************************************************)
\* the "confidence" of a JSON answer: key absent, a number, a string holding
\* a number ("0.7"), a string holding a word ("alta"), or null
ConfidenceForms ==
  {[form |-> f, value |-> 0] : f \in {"absent", "word", "null"}}
  \cup {[form |-> "number", value |-> v] : v \in {-50, 0, 65, 70, 100, 150}}
  \cup {[form |-> "text", value |-> 70]}

\* the LLM's answers: the call fails, the text holds no JSON, or a JSON object
LLMAnswers(ids) ==
  {[kind |-> k, id |-> NoValue, confidence |-> [form |-> "absent", value |-> 0]] :
     k \in {"error", "nojson"}}
  \cup {[kind |-> "json", id |-> i, confidence |-> k] : i \in ids, k \in ConfidenceForms}

\* ToolClassifyResult.none() / ClassifyResult(need=None, confidence=0.0)
NoResult == [id |-> NoValue, confidence |-> 0, numeric |-> TRUE]

classify_with_tools(answer) ==
  IF answer.kind # "json" THEN NoResult
  ELSE IF answer.id \in {NoValue, "none"} THEN NoResult
  ELSE [id |-> answer.id,
        confidence |-> CASE answer.confidence.form = "absent" -> 80
                         [] answer.confidence.form = "number" -> answer.confidence.value
                         [] OTHER -> 0,
        numeric |-> answer.confidence.form \in {"absent", "number"}]

classify_need(answer) ==
  IF answer.kind # "json" THEN NoResult
  ELSE IF answer.confidence.form \in {"word", "null"} THEN NoResult
  ELSE [id |-> IF answer.id = "null" THEN NoValue ELSE answer.id,
        confidence |-> answer.confidence.value,
        numeric |-> TRUE]

Classifications ==
  {[classifier |-> "classify_with_tools", answer |-> a, done |-> FALSE, result |-> NoResult] :
     a \in LLMAnswers({NoValue, "none", "poi_need"})}
  \cup
  {[classifier |-> "classify_need", answer |-> a, done |-> FALSE, result |-> NoResult] :
     a \in LLMAnswers({NoValue, "null", "Fame"})}

InitClassify ==
  /\ session = SessionState
  /\ unity_connected = FALSE
  /\ last = Idle
  /\ call \in Classifications
  /\ text_facts = TextFacts
  /\ store = NoStore

ClassifyWithTools ==
  /\ ~call.done
  /\ call.classifier = "classify_with_tools"
  /\ call' = [call EXCEPT !.done = TRUE, !.result = classify_with_tools(call.answer)]
  /\ UNCHANGED <<session, unity_connected, last, text_facts, store>>

ClassifyNeed ==
  /\ ~call.done
  /\ call.classifier = "classify_need"
  /\ call' = [call EXCEPT !.done = TRUE, !.result = classify_need(call.answer)]
  /\ UNCHANGED <<session, unity_connected, last, text_facts, store>>

NextClassification ==
  /\ call.done
  /\ call' \in Classifications
  /\ UNCHANGED <<session, unity_connected, last, text_facts, store>>

NextClassify == ClassifyWithTools \/ ClassifyNeed \/ NextClassification

SpecClassify == InitClassify /\ [][NextClassify]_vars

(***************************************************************************)
(* llm/intent_classifier.py : _call_openrouter, one prompt of one caller.  *)
(* Every HTTP attempt ends (the client has a timeout) and so does every    *)
(* asyncio.sleep, hence the weak fairness of the steps.                    *)
(***************************************************************************)
max_retries == 5

\* the wait growing by the attempt number only
linear_wait(attempt) == (3 * attempt) + 2

\* wait_time = (3 ** attempt) + 2
wait_time(attempt) == (3 ^ attempt) + 2

\* the functions that await _call_llm, each inside its own try
LLMCallers == {"classify_with_tools", "classify_need", "match_option",
               "get_conversational_response"}

\* what one POST may come back with: a status and, for 200, whether choices is empty
HTTPResponses ==
  {[status |-> 429, choices |-> FALSE], [status |-> 200, choices |-> TRUE],
   [status |-> 200, choices |-> FALSE], [status |-> 500, choices |-> FALSE],
   [status |-> 503, choices |-> FALSE]}

RetryCalls ==
  {[caller |-> f, attempt |-> 0, phase |-> "post", posts |-> 0, statuses |-> <<>>,
    waits |-> <<>>, outcome |-> "pending", result |-> "pending"] : f \in LLMCallers}

InitRetry ==
  /\ session = SessionState
  /\ unity_connected = FALSE
  /\ last = Idle
  /\ call \in RetryCalls
  /\ text_facts = TextFacts
  /\ store = NoStore

\* the caller's result: what it parses from the text, or its except branch
returned(c, outcome) ==
  [c EXCEPT !.phase = "done", !.outcome = outcome,
            !.result = IF outcome \in {"raised_status", "raised_rate_limit"}
                       THEN "default" ELSE "parsed"]

\* await client.post(...) inside the for loop
Post ==
  /\ call.phase = "post"
  /\ \E response \in HTTPResponses :
       LET c == [call EXCEPT !.posts = @ + 1, !.statuses = Append(@, response.status)]
       IN  call' = IF response.status = 429
                   THEN [c EXCEPT !.phase = "sleep", !.waits = Append(@, wait_time(call.attempt))]
                   ELSE IF response.status # 200 THEN returned(c, "raised_status")
                   ELSE IF response.choices THEN returned(c, "content")
                   ELSE returned(c, "empty")
  /\ UNCHANGED <<session, unity_connected, last, text_facts, store>>

\* asyncio.sleep returns; continue: the next attempt, or the loop is exhausted
\* and the function raises
Sleep ==
  /\ call.phase = "sleep"
  /\ call' = IF call.attempt + 1 < max_retries
             THEN [call EXCEPT !.attempt = @ + 1, !.phase = "post"]
             ELSE returned([call EXCEPT !.attempt = @ + 1], "raised_rate_limit")
  /\ UNCHANGED <<session, unity_connected, last, text_facts, store>>

NextRetry == Post \/ Sleep

SpecRetry == InitRetry /\ [][NextRetry]_vars /\ WF_vars(Post) /\ WF_vars(Sleep)

(***************************************************************************)
(* llm/intent_classifier.py : _clean_need_value, applied by classify_need  *)
(* to the need the LLM returned.  valid_needs is a Python set of strings:  *)
(* the order in which "for valid in valid_needs" visits it depends on the  *)
(* string hashes of the process and is one of the orders below.            *)
(***************************************************************************)
N_Fame         == <<"F","a","m","e">>
N_Sete         == <<"S","e","t","e">>
N_Malessere    == <<"M","a","l","e","s","s","e","r","e">>
N_Divertimento == <<"D","i","v","e","r","t","i","m","e","n","t","o">>
N_Shopping     == <<"S","h","o","p","p","i","n","g">>

\* None, as a value comparable with the need strings (no need is the empty string)
NoNeed == <<>>

valid_needs == {N_Fame, N_Sete, N_Malessere, N_Divertimento, N_Shopping}

\* the orders in which a process may iterate over valid_needs
IterationOrders ==
  {o \in [1..Cardinality(valid_needs) -> valid_needs] :
     \A i, j \in DOMAIN o : o[i] = o[j] => i = j}

\* for valid in valid_needs: if valid.lower() in s.lower(): return valid
first_contained(s, order) ==
  LET hits == {i \in DOMAIN order : Contains(Lower(s), Lower(order[i]))}
  IN  IF hits = {} THEN NoNeed ELSE order[Least(hits)]

\* need.split("|")[0].strip()
first_field(s) ==
  LET bars == {i \in 1..Len(s) : s[i] = "|"}
  IN  Strip(IF bars = {} THEN s ELSE SubSeq(s, 1, Least(bars) - 1))

_clean_need_value(need, order) ==
  IF need \in valid_needs THEN need
  ELSE IF first_contained(need, order) # NoNeed THEN first_contained(need, order)
  ELSE IF \E i \in 1..Len(need) : need[i] = "|"
       THEN IF first_field(need) \in valid_needs THEN first_field(need)
            ELSE first_contained(first_field(need), order)
  ELSE NoNeed

\* need values an LLM answer may carry
NeedValues ==
  { <<"S","h","o","p","p","i","n","g","|","n","u","l","l">>,
    <<"B","a","n","a","n","a">>,
    <<"F","a","m","e","|","S","e","t","e">>,
    <<"F","a","m","e">>,
    <<"s","e","t","e">>,
    <<"c","i","b","o","|","b","a","r">>,
    <<" ","M","a","l","e","s","s","e","r","e"," ","|","x">> }

Cleanings ==
  {[need |-> n, order |-> o, done |-> FALSE, result |-> NoNeed] :
     n \in NeedValues, o \in IterationOrders}

InitClean ==
  /\ session = SessionState
  /\ unity_connected = FALSE
  /\ last = Idle
  /\ call \in Cleanings
  /\ text_facts = TextFacts
  /\ store = NoStore

CleanNeed ==
  /\ ~call.done
  /\ call' = [call EXCEPT !.done = TRUE, !.result = _clean_need_value(call.need, call.order)]
  /\ UNCHANGED <<session, unity_connected, last, text_facts, store>>

\* the same process classifies the next answer: the order stays
NextCleaning ==
  /\ call.done
  /\ \E n \in NeedValues : call' = [call EXCEPT !.need = n, !.done = FALSE, !.result = NoNeed]
  /\ UNCHANGED <<session, unity_connected, last, text_facts, store>>

NextClean == CleanNeed \/ NextCleaning

SpecClean == InitClean /\ [][NextClean]_vars

(***************************************************************************)
(* main.py : the writers of driving_policy that take the value from a      *)
(* message: handle_booking_request / handle_booking_response and the       *)
(* simulator's explainability message.                                     *)
(***************************************************************************)
\* CONDITION_POLICY_RULES and get_effective_policy
get_effective_policy(requested_policy, user_conditions) ==
  IF "pregnancy" \in user_conditions
  THEN [effective_policy |-> "Comfort", policy_override_message |-> "Per la tua sicurezza"]
  ELSE [effective_policy |-> requested_policy, policy_override_message |-> NoValue]

\* driving_policy of a booking request: absent (then "Comfort") or what the client sent
RequestedPolicies == {NoValue, "Sport", "Eco", "eco"}

\* what get_user_conditions answers
UserConditions == {{}, {"pregnancy"}}

NoBooking == [effective_policy |-> NoValue, policy_override_message |-> NoValue]

\* type = "richiesta_prenotazione": pending_bookings[session_id] is written
BookingRequest ==
  /\ last = Idle
  /\ \E sent \in RequestedPolicies, user_conditions \in UserConditions :
       LET requested_policy == IF sent = NoValue THEN "Comfort" ELSE sent
       IN  call' = get_effective_policy(requested_policy, user_conditions)
  /\ UNCHANGED <<session, unity_connected, last, text_facts, store>>

\* type = "risposta_prenotazione", esito = "confermato", for the pending booking
PendingBookingConfirmed ==
  /\ BookingConfirmed({call.effective_policy})
  /\ call' = call

\* the tests made on an explainability message: its text forces Eco, its
\* payload names a policy, its text confirms a policy
ExplainabilityMessages ==
  {[forces_eco |-> e, policy |-> p, confirmed |-> m] :
     e \in BOOLEAN, p \in {NoValue, "eco", "sport"}, m \in {NoValue, "Comfort", "turbo"}}

\* type = "unity_message", action = "explainability"
Explainability ==
  /\ last = Idle
  /\ unity_connected
  /\ \E msg \in ExplainabilityMessages :
       LET forced   == IF msg.forces_eco THEN "Eco" ELSE session.driving_policy
           payload  == IF msg.policy # NoValue THEN Capitalize(msg.policy) ELSE forced
           new_policy == IF msg.confirmed # NoValue THEN Capitalize(msg.confirmed) ELSE payload
       IN  session' = [session EXCEPT !.driving_policy = new_policy]
  /\ UNCHANGED <<unity_connected, last, call, text_facts, store>>

InitBooking ==
  /\ session = SessionState
  /\ unity_connected = FALSE
  /\ last = Idle
  /\ call = NoBooking
  /\ text_facts = TextFacts
  /\ store = NoStore

NextBooking ==
  \/ BookingRequest
  \/ PendingBookingConfirmed
  \/ Explainability
  \/ EndRideConfirmed
  \/ RegisterUnity
  \/ UnregisterUnity

SpecBooking == InitBooking /\ [][NextBooking]_vars

(***************************************************************************)
(* main.py : text messages of one session, with the record of the options  *)
(* the user has declined.  call.rejected is a history of the run: the POI  *)
(* options that were on offer when a simple rejection was handled, emptied *)
(* when a response offers options again.                                   *)
(***************************************************************************)
NoRejection == [rejected |-> {}]

OfferMessages == {"no grazie", "il secondo", "che ore sono", "ok"}

PoiOptionsOf(options) == {o \in OptionSet(options) : o.k = "poi"}

\* type = "user_message", and what it does to the record of declined options
OfferUserMessage ==
  /\ last = Idle
  /\ \E text \in OfferMessages :
     \E c \in handle_user_message(
                [Ctx(session, unity_connected, "user_message", text, NoId)
                   EXCEPT !.oracle = InRideOracle]) :
       LET d == after_handle_message(c)
       IN  /\ session' = d.s
           /\ last' = Observe(d)
           /\ call' = IF d.hit = "simple_rejection"
                      THEN [rejected |-> PoiOptionsOf(session.last_ui_options)]
                      ELSE IF d.response.ui_options # <<>> THEN NoRejection
                      ELSE call
  /\ UNCHANGED <<unity_connected, text_facts, store>>

InitOffer ==
  /\ session = SessionState
  /\ unity_connected = FALSE
  /\ last = Idle
  /\ call = NoRejection
  /\ text_facts = TextFacts
  /\ store = NoStore

NextOffer == OfferUserMessage \/ SendResponse

SpecOffer == InitOffer /\ [][NextOffer]_vars

(***************************************************************************)
(* main.py : two text messages of one session in flight at once (two       *)
(* connections using the session id, or the websocket and POST /test).     *)
(* handle_user_message runs without interruption up to                     *)
(* "await intent_classifier.match_option(text, session.last_ui_options)",  *)
(* whose argument is read before the await, and resumes when the LLM has   *)
(* answered; the other handler may run in between.                         *)
(***************************************************************************)
Handlers == {1, 2}

RaceMessages == {"il secondo"}

RaceOracle ==
  [tools |-> {"poi_need"}, tool_confidences |-> {70}, need_confidences |-> {64},
   params |-> [t \in {"poi_need"} |-> {NoParams}]]

NoHandler == [phase |-> "idle", text |-> "", options |-> <<>>, concurrent |-> FALSE, commands |-> <<>>]

\* lines 784-936: the message passes the deterministic stages and match_option
\* is called with the options on offer
AwaitMatch(h) ==
  /\ last = Idle
  /\ call[h].phase = "idle"
  /\ session.last_ui_options # <<>>
  /\ \E text \in RaceMessages :
       LET facts == text_facts[text].analysis
           other == CHOOSE g \in Handlers : g # h
           both  == call[other].phase = "matching"
       IN  /\ ~facts.is_simple_rejection /\ ~facts.is_simple_confirmation
           /\ ~text_facts[text].help /\ ~text_facts[text].greeting /\ ~negation_first(facts)
           /\ call' = [g \in Handlers |->
                         IF g = h
                         THEN [NoHandler EXCEPT !.phase = "matching", !.text = text,
                                                !.options = session.last_ui_options,
                                                !.concurrent = both]
                         ELSE [call[g] EXCEPT !.concurrent = @ \/ both]]
  /\ UNCHANGED <<session, unity_connected, last, text_facts, store>>

\* lines 937-955 and what follows: match_option has returned
ResumeMatch(h) ==
  /\ last = Idle
  /\ call[h].phase = "matching"
  /\ LET c == [Ctx([session EXCEPT !.last_ui_options = call[h].options],
                   unity_connected, "user_message", call[h].text, NoId)
                 EXCEPT !.oracle = RaceOracle, !.trace = <<"option_matching">>]
         Continue(x) == tool_stage([x EXCEPT !.s.last_ui_options = session.last_ui_options])
     IN  \E e \in option_matching(c, Continue) :
           /\ session' = after_handle_message(e).s
           /\ call' = [call EXCEPT ![h].phase = "done",
                                   ![h].commands = after_handle_message(e).response.commands]
  /\ UNCHANGED <<unity_connected, last, text_facts, store>>

\* the response is sent
ReplyMatch(h) ==
  /\ call[h].phase = "done"
  /\ call' = [call EXCEPT ![h] = NoHandler]
  /\ UNCHANGED <<session, unity_connected, last, text_facts, store>>

InitRace ==
  /\ session = SessionState
  /\ unity_connected = FALSE
  /\ last = Idle
  /\ call = [h \in Handlers |-> NoHandler]
  /\ text_facts = TextFacts
  /\ store = NoStore

NextRace ==
  \/ UserMessage({"che ore sono"}, RaceOracle)
  \/ SendResponse
  \/ \E h \in Handlers : AwaitMatch(h) \/ ResumeMatch(h) \/ ReplyMatch(h)

SpecRace == InitRace /\ [][NextRace]_vars

(***************************************************************************)
(* main.py : websocket_endpoint and ConnectionManager, simulator side.     *)
(* Each connection has its own is_unity flag; the manager keeps one        *)
(* unity_connection.  call.latest is a history of the run: the socket that *)
(* identified itself as the simulator most recently.                       *)
(***************************************************************************)
Sockets == {"ws1", "ws2", "ws3"}

NoSocket == [open |-> FALSE, is_unity |-> FALSE]

NoConnections ==
  [sockets |-> [w \in Sockets |-> NoSocket], unity_connection |-> NoValue, latest |-> NoValue]

\* is_unity_connected(): unity_connection is not None
is_unity_connected(manager) == manager.unity_connection # NoValue

\* await websocket.accept()
Accept(w) ==
  /\ ~call.sockets[w].open
  /\ call' = [call EXCEPT !.sockets[w] = [open |-> TRUE, is_unity |-> FALSE]]
  /\ UNCHANGED <<session, unity_connected, last, text_facts, store>>

\* unity_message with action ping on a connection not yet identified: register_unity
Ping(w) ==
  /\ call.sockets[w].open
  /\ ~call.sockets[w].is_unity
  /\ call' = [call EXCEPT !.sockets[w].is_unity = TRUE, !.unity_connection = w, !.latest = w]
  /\ unity_connected' = is_unity_connected(call')
  /\ UNCHANGED <<session, last, text_facts, store>>

\* WebSocketDisconnect: unregister_unity() if this connection is_unity
Disconnect(w) ==
  /\ call.sockets[w].open
  /\ call' = [call EXCEPT !.sockets[w] = NoSocket,
                          !.unity_connection = IF call.sockets[w].is_unity THEN NoValue ELSE @]
  /\ unity_connected' = is_unity_connected(call')
  /\ UNCHANGED <<session, last, text_facts, store>>

InitSockets ==
  /\ session = SessionState
  /\ unity_connected = FALSE
  /\ last = Idle
  /\ call = NoConnections
  /\ text_facts = TextFacts
  /\ store = NoStore

NextSockets == \E w \in Sockets : Accept(w) \/ Ping(w) \/ Disconnect(w)

SpecSockets == InitSockets /\ [][NextSockets]_vars

(***************************************************************************)
(* main.py : POST /music/control and the player buttons of the chat client *)
(***************************************************************************)
ControlActions == {"play", "stop", "pause", "resume", "skip"}

ControlGenres == {NoValue, "jazz", "rock", "polka"}

\* control_music(data): the session after the call
control_music(s, action, genre) ==
  LET c == Ctx(s, FALSE, "control_music", "", NoId)
  IN  CASE action = "play" /\ genre # NoValue ->
             IF normalize_genre(genre) # NoValue THEN start_music(c, normalize_genre(genre)).s ELSE s
        [] action = "stop" -> stop_music(c).s
        [] action = "pause" -> [s EXCEPT !.music_paused = TRUE]
        [] action = "resume" -> [s EXCEPT !.music_paused = FALSE]
        [] OTHER -> s

ControlMusic ==
  /\ last = Idle
  /\ \E action \in ControlActions, genre \in ControlGenres :
       session' = control_music(session, action, genre)
  /\ UNCHANGED <<unity_connected, last, call, text_facts, store>>

\* the buttons of the client's music player
PlayerButtons == {Plain("pause_music"), Plain("resume_music"), Plain("stop_music")}

\* type = "ui_action" with an action id the client chooses
ClientAction(action_ids) ==
  /\ last = Idle
  /\ \E action_id \in action_ids :
     \E c \in handle_ui_action(Ctx(session, unity_connected, "ui_action", "", action_id), action_id) :
       Deliver(c)

NextControl ==
  \/ ControlMusic
  \/ ClientAction(PlayerButtons)
  \/ VolumeSetAction(ButtonVolumes)
  \/ SendResponse

SpecControl == Init /\ [][NextControl]_vars

\* action ids a client may send: ids of every branch, and ids of no branch
ActionIds ==
  {PoiOpt("POI_1"), GenreOpt("Jazz"), PolicyOpt("eco"), PolicyOpt("turbo"), CancelOpt,
   NeedOpt("Fame"), QuickOpt("fame"), QuickOpt("banana"), Plain("stop_music"),
   Plain("ask_music"), Plain("music_ok"), Plain("pause_music"), Plain("boh")}

\* the ids among them that no branch of handle_ui_action names
UnknownIds == {QuickOpt("banana"), Plain("boh")}

NextActions == ClientAction(ActionIds) \/ SendResponse

SpecActions == Init /\ [][NextActions]_vars
(***************************************************************************)
(* Properties                                                              *)
(***************************************************************************)
\* the stages of handle_user_message in the order the specification gives
Stages ==
  << "simple_rejection", "simple_confirmation", "help_request", "greeting", "negation",
     "option_matching", "tool_classification", "heuristic_policy", "poi_selection",
     "need_classification", "fallback" >>

StageIndex(stage) == CHOOSE i \in 1..Len(Stages) : Stages[i] = stage

\* the stages that ask the LLM
LLMStages ==
  {"option_matching", "tool_classification", "poi_selection", "need_classification", "fallback"}

Visited(stage) == \E i \in 1..Len(last.trace) : last.trace[i] = stage

\* positions of the commands / simulator messages of one type
CommandsOfType(type) ==
  {i \in 1..Len(last.response.commands) : last.response.commands[i].type = type}

SentOfType(type) == {i \in 1..Len(last.sent) : last.sent[i].type = type}

DeclineResponse ==
  Response("Va bene, nessun problema! Se hai bisogno di qualcosa, sono qui.", <<>>, <<>>)

C2_ThresholdGating ==
  LET tool_min == IF last.op = "user_message" THEN 70 ELSE 60
      need_min == IF last.op = "user_message" THEN 65 ELSE 50
      executed == last.hit = "tool_classification"
      accepted == last.hit = "need_classification"
  IN  last.op \in {"user_message", "pre_ride_message"} =>
        /\ (Visited("tool_classification") /\ ~last.raised) =>
             /\ executed <=> (last.tool_result.has_tool /\ last.tool_result.confidence >= tool_min)
             /\ executed => Len(last.tools) = 1
             /\ ~executed =>
                  /\ last.tools # <<>> => last.hit = "heuristic_policy"
                  /\ StageIndex(last.trace[Len(last.trace)]) > StageIndex("tool_classification")
        /\ Visited("need_classification") =>
             /\ accepted <=> (last.need_result.need # NoValue /\ last.need_result.confidence >= need_min)
             /\ ~accepted => last.hit = "fallback" /\ last.tools = <<>>

\* an in-ride tool answer at 0.69: nothing executed, the pipeline went on
C2_Witness ==
  /\ last.op = "user_message"
  /\ last.tool_result.has_tool
  /\ last.tool_result.confidence = 69
  /\ last.tools = <<>>
  /\ last.hit = "need_classification"

\* C3: a message whose analysis has has_negation executes no tool, makes no
\* LLM call and returns no commands, whatever the session holds.
C3_NegationBlocks ==
  (last.op = "user_message" /\ TextFacts[last.text].analysis.has_negation) =>
    /\ last.tools = <<>>
    /\ last.llm_calls = 0
    /\ last.ui_actions = <<>>
    /\ last.response.type = "assistant_response"
    /\ last.response.commands = <<>>

\* a negation handled while options and suggestions were pending in a ride
C3_Witness ==
  /\ last.op = "user_message"
  /\ last.hit = "negation"
  /\ last.pre.last_ui_options # <<>>
  /\ last.pre.last_poi_suggestions # <<>>
  /\ last.pre.is_ride_active

\* the text match_option runs its pre-checks on
CallText == Lower(Strip(Chars[call.message]))

InRange(v, n) == v # NoIndex /\ 1 <= v /\ v <= n

\* the option numbers a text mentions that are in range: by ordinal word, or
\* as an integer standing alone
Mentions(text, n) ==
  {ordinal_map[k].idx : k \in {k \in 1..Len(ordinal_map) : SearchWord(text, ordinal_map[k].word)}}
  \cup {BareNumberAt(text, i) : i \in 1..Len(text)}

MentionsInRange(text, n) == {v \in Mentions(text, n) : InRange(v, n)}

\* C4: a message without cancellation phrase that mentions exactly one option
\* number N in 1..len(options), by ordinal word, "numero N" or bare integer,
\* selects the N-th option with zero LLM calls.
C4_AnyMentionSelects ==
  (/\ call.done
   /\ ~HasCancelPhrase(CallText)
   /\ Cardinality(MentionsInRange(CallText, Len(call.options))) = 1) =>
    LET N == CHOOSE v \in MentionsInRange(CallText, Len(call.options)) : TRUE
    IN  call.result = MatchResult(call.options[N], "select", 0)

\* C5: with options on offer, a message containing a cancellation phrase
\* returns action = cancel with no selected id and zero LLM calls, also when
\* the message names an option by ordinal or number.
C5_CancelFirst ==
  (call.done /\ call.options # <<>> /\ HasCancelPhrase(CallText)) =>
    call.result = MatchResult(NoId, "cancel", 0)

\* 'il secondo' arrives while POI_1 and POI_2 are suggested and on offer in a ride
SecondOfTwo ==
  /\ last.op = "user_message"
  /\ last.text = "il secondo"
  /\ last.pre.last_poi_suggestions = <<"POI_1", "POI_2">>
  /\ last.pre.last_ui_options = PoiButtons(<<"POI_1", "POI_2">>)
  /\ last.pre.is_ride_active

BothListsEmpty == session.last_ui_options = <<>> /\ session.last_poi_suggestions = <<>>

RerouteToSecond ==
  /\ Len(last.response.commands) = 1
  /\ last.response.commands[1].type = "REROUTE_TO"
  /\ last.response.commands[1].poi_id = "POI_2"

\* C6: 'il secondo' with POI_1 and POI_2 suggested and on offer in a ride
\* resolves to POI_2 whatever the LLM answers: the response carries exactly one
\* REROUTE_TO command for POI_2 and both lists are empty afterwards.
C6_AlwaysReroutes == SecondOfTwo => (RerouteToSecond /\ BothListsEmpty)

\* a step that consummates a selection or cancels one
SelectionClosed ==
  /\ ~last.raised
  /\ \/ last.op = "user_message" /\ last.hit \in {"simple_rejection", "option_matching", "poi_selection"}
     \/ last.op = "ui_action" /\ (last.action_id.k = "poi" \/ last.action_id = CancelOpt)

\* C7 as stated: after a step that consummates or cancels a selection made
\* from pending suggestions and their options, there is no state in which one
\* list is empty and the other still holds the options that were on offer.
C7_ClearedTogether ==
  (/\ SelectionClosed
   /\ last.pre.last_poi_suggestions # <<>>
   /\ last.pre.last_ui_options # <<>>) =>
    /\ ~(/\ session.last_poi_suggestions = <<>>
         /\ session.last_ui_options = last.pre.last_ui_options)
    /\ ~(/\ session.last_ui_options = <<>>
         /\ session.last_poi_suggestions = last.pre.last_poi_suggestions)

\* C8: a simple rejection returns the fixed polite-decline response with no
\* options and no commands, and leaves last_poi_suggestions empty and
\* pending_question absent, whatever they held before.
C8_RejectionClears ==
  (last.op = "user_message" /\ TextFacts[last.text].analysis.is_simple_rejection) =>
    /\ last.response = DeclineResponse
    /\ last.hit = "simple_rejection"
    /\ session.last_poi_suggestions = <<>>
    /\ session.pending_question = NoValue

\* 'no grazie' while suggestions and a question were pending
C8_Witness ==
  /\ last.op = "user_message"
  /\ last.hit = "simple_rejection"
  /\ last.pre.last_poi_suggestions # <<>>
  /\ last.pre.pending_question # NoValue

\* C9: a cambio_destinazione message reaches the simulator only for a
\* REROUTE_TO command of a session with an active ride and with the simulator
\* connected; without a ride or without the simulator nothing is forwarded,
\* no exception reaches the caller and the chat response is returned.
C9_RerouteNeedsRide ==
  /\ SentOfType("cambio_destinazione") # {} =>
       /\ last.pre.is_ride_active
       /\ last.pre.unity
       /\ CommandsOfType("REROUTE_TO") # {}
  /\ (CommandsOfType("REROUTE_TO") # {} /\ ~(last.pre.is_ride_active /\ last.pre.unity)) =>
       /\ last.sent = <<>>
       /\ ~last.raised
       /\ last.response.type = "assistant_response"

\* a REROUTE_TO returned with the simulator connected but no ride: dropped
C9_Witness ==
  /\ CommandsOfType("REROUTE_TO") # {}
  /\ ~last.pre.is_ride_active
  /\ last.pre.unity
  /\ last.sent = <<>>
  /\ last.response.type = "assistant_response"

\* C10 as stated: at most one repository lookup is made per REROUTE_TO
\* command, and the simulator never receives a cambio_destinazione whose
\* poi_id_unity is absent.
C10_NoAbsentUnityId ==
  /\ last.recover_lookups <= Len(last.response.commands)
  /\ \A i \in SentOfType("cambio_destinazione") : last.sent[i].poi_id_unity # NoValue

\* positions of one kind of event in the run: "tool" (_execute_tool ran),
\* "poi_selection" (handle_poi_selection ran), "side_effects"
EventsOf(kind) == {i \in 1..Len(last.events) : last.events[i] = kind}

Executions == EventsOf("tool") \cup EventsOf("poi_selection")

\* the run executed something and returned its response
RanTool == ~last.raised /\ Executions # {}

\* side-effect processing was invoked, and only after the execution
ProcessedAfter ==
  /\ EventsOf("side_effects") # {}
  /\ \A i \in Executions, j \in EventsOf("side_effects") : i < j

NonPoiExecuted ==
  {i \in 1..Len(last.tools) :
     last.tools[i] \in RegisteredTools /\ category(last.tools[i]) # "poi"}

\* C12: handle_pre_ride_message never executes a tool whose category is not
\* "poi", whatever tool id the classifier returns.
C12_PreRideOnlyPoiTools == last.op = "pre_ride_message" => NonPoiExecuted = {}

\* the place of a tool id in the registration order
RegistrationIndex(tool_id) == CHOOSE i \in 1..Len(ALL_TOOLS) : ALL_TOOLS[i].id = tool_id

\* C13: get_available_tools(state) returns exactly the registered tools whose
\* availability predicate holds for the state (music_stop only while music is
\* playing, music_play only while it is not, change_driving_policy only in
\* NORMAL mode), in PRE_RIDE only those of category "poi"; the tools come in
\* registration order, each once, and every call on the state returns the same.
C13_AvailableTools ==
  \A k \in 1..Len(call.results) :
    LET tools == call.results[k]
        Returned(tool_id) == \E i \in 1..Len(tools) : tools[i] = tool_id
    IN  /\ \A i \in 1..Len(tools) : tools[i] \in RegisteredTools
        /\ \A tool_id \in RegisteredTools :
             Returned(tool_id) <=>
               /\ is_available(tool_id, session)
               /\ session.mode = "pre_ride" => category(tool_id) = "poi"
        /\ Returned("music_stop") => session.music_playing
        /\ Returned("music_play") => ~session.music_playing
        /\ Returned("change_driving_policy") => session.mode = "normal"
        /\ session.mode = "pre_ride" =>
             \A i \in 1..Len(tools) : tools[i] \in {"poi_direct", "poi_need", "poi_tag"}
        /\ \A i, j \in 1..Len(tools) :
             i < j => RegistrationIndex(tools[i]) < RegistrationIndex(tools[j])
        /\ \A l \in 1..Len(call.results) : call.results[l] = tools

\* the registry asked MaxCalls times in a ride with music paused
C13_Witness ==
  /\ session.mode = "normal" /\ session.music_playing /\ session.music_paused
  /\ Len(call.results) = MaxCalls
  /\ call.results[1] = <<"music_stop", "music_resume", "volume_up", "volume_down", "volume_set",
                         "change_genre", "poi_direct", "poi_need", "poi_tag",
                         "change_driving_policy">>

\* the run executed a tool id the registry does not hold
UnregisteredExecuted == \E i \in 1..Len(last.tools) : last.tools[i] \notin RegisteredTools

\* the session as the handler found it; handle_pre_ride_message first sets the mode
SessionAtEntry ==
  IF last.op = "pre_ride_message" THEN [last.pre.session EXCEPT !.mode = "pre_ride"]
  ELSE last.pre.session

MalformedToolAnswer == last.tool_result.has_tool /\ ~last.tool_result.numeric

\* C15: when the LLM's answer to the tool classification is malformed, the
\* classifier's result counts as no tool: no exception escapes
\* handle_user_message or handle_pre_ride_message, no tool is executed and the
\* pipeline goes on to a later stage, which returns the assistant response.
C15_MalformedAnswerTolerated ==
  (last.op \in {"user_message", "pre_ride_message"} /\ MalformedToolAnswer) =>
    /\ ~last.raised
    /\ last.tools = <<>>
    /\ last.response.type = "assistant_response"
    /\ last.hit # "tool_classification"

\* C16: whatever the message, the session state and the outcomes of the LLM
\* and repository calls (success, malformed answer, failure),
\* handle_user_message returns one assistant_response; a run that reaches the
\* conversational fallback returns there, and option matching hands over to
\* handle_ui_action at most once.
C16_RunsToOneResponse ==
  last.op = "user_message" =>
    /\ ~last.raised
    /\ last.response # NoResponse
    /\ last.response.type = "assistant_response"
    /\ last.hit = last.trace[Len(last.trace)]
    /\ Visited("fallback") => last.hit = "fallback"
    /\ Len(last.ui_actions) <= 1

\* the run asked for a policy: by the tool (classifier or heuristic) or a policy: button
PolicyToolRan == \E i \in 1..Len(last.tools) : last.tools[i] = "change_driving_policy"

PolicyButtonPressed == \E i \in 1..Len(last.ui_actions) : last.ui_actions[i].k = "policy"

\* C17: asking for another driving policy (change_driving_policy tool,
\* heuristic policy detection, a policy: button) never changes the session's
\* driving_policy; the field changes only in a step that handles the
\* simulator's confirmed booking response or its policy notification.
C17_PolicyOnlyConfirmed ==
  [][ /\ (last' # Idle /\ last' # last) => session'.driving_policy = session.driving_policy
      /\ session'.driving_policy # session.driving_policy =>
           \/ BookingConfirmed(BookingPolicies)
           \/ PolicyNotification(NotifiedPolicies) ]_vars

\* a request for Comfort went out to the simulator while Sport stayed in force
C17_Witness ==
  /\ PolicyToolRan
  /\ last.hit = "heuristic_policy"
  /\ SentOfType("cambio_policy") # {}
  /\ last.sent[1].nuova_policy = "Comfort"
  /\ session.driving_policy = "Sport"

\* the policy the tool was asked for: the classifier gives no parameter, so
\* it is the one the text names
RequestedPolicy == TextFacts[last.text].policy

TracePos(stage) ==
  IF Visited(stage) THEN CHOOSE i \in 1..Len(last.trace) : last.trace[i] = stage ELSE 0

\* C19: the heuristic policy detection runs only in NORMAL mode and only
\* after the LLM tool classification missed; it returns exactly when the text
\* names a policy, having run the policy tool; in PRE_RIDE mode a message with
\* a policy keyword never runs the policy tool through this stage, and
\* handle_pre_ride_message has no such stage.
C19_HeuristicOnlyNormal ==
  /\ Visited("heuristic_policy") =>
       /\ last.op = "user_message"
       /\ last.pre.mode = "normal"
       /\ 0 < TracePos("tool_classification")
       /\ TracePos("tool_classification") < TracePos("heuristic_policy")
       /\ ~(last.tool_result.has_tool /\ last.tool_result.confidence >= 70)
       /\ last.hit = "heuristic_policy" <=> TextFacts[last.text].policy # NoValue
       /\ last.hit = "heuristic_policy" => last.tools = <<"change_driving_policy">>
  /\ (last.op = "user_message" /\ last.pre.mode = "normal" /\ ~last.raised
      /\ StageIndex(last.hit) > StageIndex("tool_classification")) => Visited("heuristic_policy")
  /\ (last.op \in {"user_message", "pre_ride_message"} /\ last.pre.mode = "pre_ride" /\ PolicyToolRan) =>
       last.hit = "tool_classification"
  /\ last.op = "pre_ride_message" => ~Visited("heuristic_policy")

\* 'vai veloce' in PRE_RIDE mode went past the tool classification to the fallback
C19_Witness ==
  /\ last.op = "user_message"
  /\ last.text = "vai veloce"
  /\ last.pre.mode = "pre_ride"
  /\ last.hit = "fallback"
  /\ last.tools = <<>>

\* C20: session.mode changes only through ride start and ride end: a step that
\* handles a chat message or a button, which is neither, leaves session.mode
\* as it found it.
C20_ModeOnlyRideOps ==
  last.op \in {"user_message", "pre_ride_message", "ui_action"} =>
    session.mode = last.pre.session.mode

(***************************************************************************)
(* Properties of the music tools, of the POI lists and of the classifiers  *)
(***************************************************************************)
\* the run executed exactly this tool and returned its response
OnlyTool(tool_id) == ~last.raised /\ last.tools = <<tool_id>>

\* the run handled a press of the volume button
VolumeButton == last.op = "ui_action" /\ last.ui_actions = <<Plain("volume_set")>>

\* max(1, min(10, v)) written out
Within1To10(v) == IF v >= 10 THEN 10 ELSE IF v <= 1 THEN 1 ELSE v

\* the run returned exactly one command, of this type
OneCommand(type) ==
  Len(last.response.commands) = 1 /\ last.response.commands[1].type = type

\* C21: the stored music volume is always within 1..10; the volume button
\* stores max(1, min(10, v)) of the value it carries (5 when it carries none),
\* volume_up and volume_down store the old value plus or minus 2 brought
\* back into the range; every SET_VOLUME command carries exactly the value
\* stored after the operation.
C21_VolumeClamped ==
  /\ session.music_volume \in 1..10
  /\ last # Idle =>
       /\ \A i \in CommandsOfType("SET_VOLUME") :
            last.response.commands[i].volume = session.music_volume
       /\ VolumeButton =>
            /\ session.music_volume =
                 Within1To10(IF last.payload.volume = NoIndex THEN 5 ELSE last.payload.volume)
            /\ OneCommand("SET_VOLUME")
       /\ OnlyTool("volume_up") =>
            /\ session.music_volume = Within1To10(last.pre.session.music_volume + 2)
            /\ OneCommand("SET_VOLUME")
       /\ OnlyTool("volume_down") =>
            /\ session.music_volume = Within1To10(last.pre.session.music_volume - 2)
            /\ OneCommand("SET_VOLUME")
       /\ OnlyTool("volume_set") => OneCommand("SET_VOLUME")

\* volume_down brought the volume to 1 and stayed there, then the volume
\* button carried 11 and 10 was stored
C21_Witness ==
  /\ VolumeButton
  /\ last.payload.volume = 11
  /\ last.pre.session.music_volume = 1
  /\ session.music_volume = 10

\* the music flags of a session
MusicOf(s) == <<s.music_playing, s.music_genre, s.music_paused>>

\* the genre has a track, whatever its case
Recognised(genre) == \E a \in AvailableGenres : StrLower(a) = StrLower(genre)

TrackOf(genre) == CHOOSE a \in AvailableGenres : StrLower(a) = StrLower(genre)

\* the response carries exactly one command, PLAY_MUSIC for this track, and
\* the session plays it
Plays(track) ==
  /\ OneCommand("PLAY_MUSIC")
  /\ last.response.commands[1].genre = track
  /\ last.response.commands[1].url = "/music/" \o track
  /\ MusicOf(session) = <<TRUE, track, FALSE>>

\* C22: when music is not playing and the play tool runs with a recognised
\* genre g, the response carries exactly one PLAY_MUSIC command with payload
\* {genre: g, url: '/music/' + g} and afterwards the session has playing =
\* true, genre = g, paused = false.
C22_PlayStartsGenre ==
  (/\ last # Idle
   /\ OnlyTool("music_play")
   /\ ~SessionAtEntry.music_playing
   /\ last.params.genre # NoValue
   /\ Recognised(last.params.genre))
  => Plays(TrackOf(last.params.genre))

\* 'metti del jazz' with nothing playing started Jazz from /music/Jazz
C22_Witness ==
  /\ OnlyTool("music_play")
  /\ last.text = "metti del jazz"
  /\ ~SessionAtEntry.music_playing
  /\ last.response.commands = <<Command("PLAY_MUSIC", [genre |-> "Jazz", url |-> "/music/Jazz"])>>
  /\ MusicOf(session) = <<TRUE, "Jazz", FALSE>>

\* the response offers the switch and nothing else happened
OffersSwitch ==
  /\ last.response.ui_options = <<Plain("change_music"), Plain("music_ok")>>
  /\ last.response.commands = <<>>
  /\ MusicOf(session) = MusicOf(SessionAtEntry)
  /\ session.pending_question = SessionAtEntry.pending_question

\* the response asks with the genre menu and nothing is started
AsksGenre ==
  /\ last.response.ui_options =
       <<GenreOpt("Pop"), GenreOpt("Rock"), GenreOpt("Jazz"), GenreOpt("Classica"),
         GenreOpt("HipHop"), GenreOpt("Elettronica"), Plain("no_music")>>
  /\ last.response.commands = <<>>
  /\ session.pending_question = "music_genre"
  /\ MusicOf(session) = MusicOf(SessionAtEntry)

AppliesOrAsks(tool_id, applies, type, after) ==
  OnlyTool(tool_id) =>
    IF applies
    THEN OneCommand(type) /\ MusicOf(session) = after
    ELSE last.response.commands = <<>> /\ MusicOf(session) = MusicOf(SessionAtEntry)

\* C24: stop, pause and resume check the playing and paused flags first: they
\* change the music state and emit STOP_MUSIC / PAUSE_MUSIC / RESUME_MUSIC
\* only when the action applies (stop: playing; pause: playing and not
\* paused; resume: playing and paused); otherwise they emit no command and
\* leave the music state unchanged.
C24_FlagsChecked ==
  last # Idle =>
    LET before == SessionAtEntry
    IN  /\ AppliesOrAsks("music_stop", before.music_playing, "STOP_MUSIC",
                         <<FALSE, NoValue, FALSE>>)
        /\ AppliesOrAsks("music_pause", before.music_playing /\ ~before.music_paused,
                         "PAUSE_MUSIC", <<TRUE, before.music_genre, TRUE>>)
        /\ AppliesOrAsks("music_resume", before.music_playing /\ before.music_paused,
                         "RESUME_MUSIC", <<TRUE, before.music_genre, FALSE>>)

\* the music sub-state of a new session
MusicAtStart(s) == MusicOf(s) = <<FALSE, NoValue, FALSE>> /\ s.music_volume = 5

\* C25: whenever a ride ends (end_ride on the confirmed end-ride response, or
\* clear_session) the session's music sub-state, playing flag, genre, paused
\* flag and volume, is back at its initial values: not playing, no genre,
\* not paused, volume 5.
C25_RideEndResetsMusic ==
  [][(session.is_ride_active /\ ~session'.is_ride_active) => MusicAtStart(session')]_vars

\* the response offers at least one POI
SurfacesPois ==
  \E i \in 1..Len(last.response.ui_options) : last.response.ui_options[i].k = "poi"

\* C26: a response that surfaces a POI list has as ui_options one poi:<id>
\* option per POI, in the returned order, followed by exactly one final
\* cancel option, and after the message is handled last_poi_suggestions is
\* exactly the ids of those options in the same order.
C26_PoiListSurfaced ==
  (last # Idle /\ SurfacesPois) =>
    LET options == last.response.ui_options
        n == Len(options)
    IN  /\ options[n] = CancelOpt
        /\ \A i \in 1..(n - 1) : options[i].k = "poi"
        /\ session.last_poi_suggestions = [i \in 1..(n - 1) |-> options[i].v]

\* 'ho fame'-like need answered with two POIs
C26_Witness ==
  /\ last.hit = "need_classification"
  /\ last.response.ui_options = <<PoiOpt("POI_1"), PoiOpt("POI_2"), CancelOpt>>
  /\ session.last_poi_suggestions = <<"POI_1", "POI_2">>

\* C27: between message handlings, for each id in last_poi_suggestions there
\* is an option poi:<id> in last_ui_options.
C27_OptionsCoverSuggestions ==
  last = Idle =>
    \A i \in 1..Len(session.last_poi_suggestions) :
      \E j \in 1..Len(session.last_ui_options) :
        session.last_ui_options[j] = PoiOpt(session.last_poi_suggestions[i])

\* C28: session state is scoped per session id: a step that handles a
\* message for one session (user_message, pre_ride_message, ui_action,
\* trigger), from its start to its response, changes no field of any other
\* session and removes none, whatever other handlers are running.
C28_SessionsIsolated ==
  [][\A b \in DOMAIN store.sessions :
       b # store'.handled =>
         (b \in DOMAIN store'.sessions /\ store'.sessions[b] = store.sessions[b])]_vars

\* A's handler has written a state of its own while B's handler is running
C28_Witness ==
  /\ store.handled = "A"
  /\ DOMAIN store.sessions = SessionIds
  /\ "B" \in DOMAIN store.running
  /\ "A" \notin DOMAIN store.running
  /\ store.sessions["A"] # SessionState
  /\ store.sessions["B"] # store.sessions["A"]

\* C29: every result of match_option has action select, cancel or unclear,
\* whatever the LLM answered, and carries a selected id whenever the action
\* is select; with no options the result is {no id, unclear} and the LLM was
\* not asked.
C29_MatchResultWellFormed ==
  call.done =>
    /\ call.result.action \in {"select", "cancel", "unclear"}
    /\ call.result.action = "select" => call.result.selected_id # NoId
    /\ call.options = <<>> => call.result = MatchResult(NoId, "unclear", 0)

\* C30: classify_need and classify_with_tools never return a confidence
\* below 0, above 1 or that is no number, whatever the LLM answered; a failed
\* call or an answer without JSON gives confidence 0.0 with no need / tool.
C30_ConfidenceInRange ==
  call.done =>
    /\ call.result.numeric
    /\ call.result.confidence \in 0..100
    /\ call.answer.kind # "json" => call.result = NoResult

(***************************************************************************)
(* Properties of the retry loop, the need sanitiser, the driving policy,   *)
(* option selection, the simulator connection and the music flags          *)
(***************************************************************************)
\* 3s, 5s, 11s, 29s, 83s
BackoffSeconds == <<3, 5, 11, 29, 83>>

RetrySafe ==
  /\ call.posts <= 5
  /\ Len(call.waits) <= 5
  \* a retry only after a 429: every attempt but the last one ended in 429
  /\ \A i \in 1..Len(call.statuses) :
       i < Len(call.statuses) => call.statuses[i] = 429
  /\ Len(call.waits) = Cardinality({i \in 1..Len(call.statuses) : call.statuses[i] = 429})
  /\ \A i \in 1..Len(call.waits) : call.waits[i] = BackoffSeconds[i]
  /\ call.outcome = "raised_rate_limit" =>
       call.posts = 5 /\ call.phase = "done" /\ call.result = "default"
  /\ (call.posts = 5 /\ call.statuses[5] = 429 /\ call.phase = "done") =>
       call.outcome = "raised_rate_limit"

\* C31: _call_openrouter makes at most 5 HTTP attempts for one prompt,
\* retries only after a 429 response, waits 3^attempt + 2 seconds before the
\* next attempt, raises after the fifth 429 instead of retrying, and the
\* calling classification always terminates, with its default result when
\* the call raised.
C31_RetryBounded == []RetrySafe /\ <>(call.phase = "done")

\* five 429 responses in a row ended in the raise and the caller's default
C31_Witness ==
  /\ call.phase = "done"
  /\ call.statuses = <<429, 429, 429, 429, 429>>
  /\ call.waits = <<3, 5, 11, 29, 83>>
  /\ call.result = "default"

\* C32: _clean_need_value returns one of Fame, Sete, Malessere, Divertimento,
\* Shopping or nothing, and the result depends only on the input:
\* 'Shopping|null' gives Shopping, 'Banana' gives nothing and 'Fame|Sete'
\* gives Fame on every run.
C32_CleanNeedDeterministic ==
  call.done =>
    /\ call.result \in valid_needs \cup {NoNeed}
    /\ call.need = <<"S","h","o","p","p","i","n","g","|","n","u","l","l">> => call.result = N_Shopping
    /\ call.need = <<"B","a","n","a","n","a">> => call.result = NoNeed
    /\ call.need = <<"F","a","m","e","|","S","e","t","e">> => call.result = N_Fame

\* C33: driving_policy is one of Sport, Comfort, Eco in every reachable
\* state, also after booking confirmations and after the simulator's
\* policy-change notifications.
C33_PolicyInList == session.driving_policy \in {"Sport", "Comfort", "Eco"}

\* C34: whenever match_option returns action select with an id, the id is the
\* id of one of the options it was given: a text reply never selects an
\* option (a POI) that was not on offer.
C34_SelectedIsOffered ==
  (call.done /\ call.result.action = "select" /\ call.result.selected_id # NoId) =>
     call.result.selected_id \in OptionSet(call.options)

\* C35: after a simple rejection ('no grazie') of an offered POI list, a later
\* text message does not select one of the declined options unless options
\* were offered again in between: no response to a text resolved against the
\* option list carries a REROUTE_TO for a POI of the rejected list.
C35_RejectedNotSelectable ==
  (last.op = "user_message" /\ last.hit = "option_matching") =>
    \A i \in CommandsOfType("REROUTE_TO") :
       PoiOpt(last.response.commands[i].poi_id) \notin call.rejected

Reroutes(commands) == {i \in 1..Len(commands) : commands[i].type = "REROUTE_TO"}

\* C36: when two text messages of one session are in flight together and
\* are resolved against the same option list, at most one of the two
\* responses carries a REROUTE_TO command.
C36_OneRerouteInFlight ==
  (/\ \A h \in Handlers : call[h].phase = "done" /\ call[h].concurrent
   /\ call[1].options = call[2].options) =>
     ~(\A h \in Handlers : Reroutes(call[h].commands) # {})

\* C37: while the websocket that identified itself as the simulator most
\* recently is open, is_unity_connected() is true: the disconnect of an older
\* simulator websocket never unregisters a newer one.
C37_NewerUnityStays ==
  (call.latest # NoValue /\ call.sockets[call.latest].open /\ call.sockets[call.latest].is_unity)
    => unity_connected

\* C38: whenever a response carries a STOP_MUSIC command (from the
\* music_stop tool, the 'stop_music' button or the 'change_music' button)
\* music_playing is false once the message has been handled.
C38_StopMeansNotPlaying ==
  (last # Idle /\ CommandsOfType("STOP_MUSIC") # {}) => ~session.music_playing

\* C39: music_paused implies music_playing in every reachable state, under
\* the tools, the 'pause_music' and 'resume_music' buttons and the
\* /music/control calls.
C39_PausedImpliesPlaying == session.music_paused => session.music_playing

\* C40: handle_ui_action returns an assistant_response for every action id;
\* an id it does not recognise, unknown 'quick:' ids included, gets the
\* generic 'Azione ricevuta.' response with no options and no commands,
\* never an absent result or an error.
C40_EveryActionAnswered ==
  last.op = "ui_action" =>
    /\ ~last.raised
    /\ last.response # NoResponse
    /\ last.action_id \in UnknownIds => last.response = Response("Azione ricevuta.", <<>>, <<>>)
====
